---- MODULE Spec2Model ----
(***************************************************************************)
(* Supervision and reliability core of the baihu daemon.                   *)
(*                                                                         *)
(*   Spec        daemon orchestrator: instance lock, startup, shutdown     *)
(*   SpecSup     one supervised component and its health entry             *)
(*   SpecSupFair SpecSup with the scheduling fairness of the runtime        *)
(*   SpecHealth  the health registry under arbitrary callers               *)
(*   SpecPair    the gateway pairing guard                                 *)
(*                                                                         *)
(* Strings that the code inspects byte by byte (pairing codes, tokens) are *)
(* sequences of byte values; opaque texts are TLA+ strings.  Option<T> is  *)
(* a sequence of length 0 (None) or 1 (Some).                              *)
(***************************************************************************)
EXTENDS Integers, Sequences, FiniteSets, TLC

VARIABLES
    \* health registry (src/health/mod.rs) and the wall clock it reads
    components, clock, snap,
    \* run_supervised_component (src/daemon/mod.rs)
    sup_pc, initial_backoff_secs, max_backoff_secs, backoff, max_backoff,
    outcome, inflight, sleep_secs,
    \* the factory exits of the supervisor so far, counted as a u64
    exits,
    \* daemon::run, one entry per daemon process
    run_pc, locked, result, health, tasks, cfg,
    \* run_state_writer of each daemon process and the write it handed to
    \* the blocking thread pool
    sw_pc, sw_due, sw_write, sw_ret,
    \* PairingGuard (src/security/pairing.rs)
    require_pairing, pairing_code, paired_tokens, failed_attempts,
    uuid_next, pair_pc, pair_ret,
    \* a call of constant_time_eq (src/security/pairing.rs)
    cte_a, cte_b, cte_ret,
    \* ReliableProvider (src/providers/reliable.rs), the frames of the calls
    \* of chat_with_system and the attempts in flight at the providers
    max_retries, base_backoff_ms, cache, calls, in_flight,
    \* the directory that atomic_write (src/security/atomic_write.rs) works
    \* in, the files' contents and the frames of its calls
    parent_exists, fs_names, fs_data, writers,
    \* a call of validate_url_not_private and a redirect chain of the client
    \* of build_ssrf_safe_client (src/providers/http_client.rs)
    http_url, http_ret, chain, chain_state, chain_loc,
    \* a jitter computation (src/providers/reliable.rs apply_jitter and the
    \* supervisor's in src/daemon/mod.rs)
    jit_site, jit_base, jit_raw, jit_ret,
    \* a content put through maybe_compress and maybe_decompress
    \* (src/memory/compression.rs)
    z_content, z_stored, z_ret

healthVars == <<components, clock, snap>>
supVars    == <<sup_pc, initial_backoff_secs, max_backoff_secs, backoff,
                max_backoff, outcome, inflight, sleep_secs, exits>>
runVars    == <<run_pc, locked, result, health, tasks, cfg>>
swVars     == <<sw_pc, sw_due, sw_write, sw_ret>>
pairVars   == <<require_pairing, pairing_code, paired_tokens, failed_attempts,
                uuid_next, pair_pc, pair_ret>>
cteVars    == <<cte_a, cte_b, cte_ret>>
\* the state of the library functions that are exercised on their own
relVars    == <<max_retries, base_backoff_ms, cache, calls, in_flight>>
awVars     == <<parent_exists, fs_names, fs_data, writers>>
httpVars   == <<http_url, http_ret, chain, chain_state, chain_loc>>
jitVars    == <<jit_site, jit_base, jit_raw, jit_ret>>
zVars      == <<z_content, z_stored, z_ret>>
\* the library state that the jitter and compression calls leave alone
olderLibVars == <<cteVars, relVars, awVars, httpVars>>
libVars    == <<cteVars, relVars, awVars, httpVars, jitVars, zVars>>
\* the state of the daemon, its supervisors and the gateway's guard
coreVars   == <<healthVars, supVars, runVars, swVars, pairVars>>
vars       == <<healthVars, supVars, runVars, swVars, pairVars, libVars, swVars>>

----------------------------------------------------------------------------
(* Bounds of the model *)

\* u64::MAX scaled to the model's range: seconds and restart counts live in 0..MaxU
MaxU == 7
\* the wall clock stops advancing at MaxClock
MaxClock == 1

None == <<>>
Some(x) == <<x>>
Min(a, b) == IF a <= b THEN a ELSE b
Max(a, b) == IF a >= b THEN a ELSE b

\* u64 arithmetic
U64 == 0..MaxU
SaturatingAdd(a, b) == Min(a + b, MaxU)
\* a wrapping multiplication
SaturatingMulWrap(a, b) == (a * b) % (MaxU + 1)
SaturatingMul(a, b) == Min(a * b, MaxU)

----------------------------------------------------------------------------
(* Health registry: src/health/mod.rs *)

Names == {"daemon", "gateway"}
ErrTexts == {"boom", ""}
UnexpectedExit == "component exited unexpectedly"

\* now_rfc3339(): the readings the wall clock can give after it read `last`
now_rfc3339(last) == {t \in last..MaxClock : t <= last + 1}

\* or_insert_with of upsert_component: the entry a first mention inserts
StartingEntry(now) ==
    [status |-> "starting", updated_at |-> now, last_ok |-> None,
     last_error |-> None, restart_count |-> 0]

\* map.entry(component).or_insert_with(..): the entry the update closure sees
EntryOf(map, component, now) ==
    IF component \in DOMAIN map THEN map[component] ELSE StartingEntry(now)

\* upsert_component: `updated` is the entry after update(entry); it is stamped
\* with `now`, the reading taken under the lock before the update ran
upsert_component(map, component, now, updated) ==
    [n \in DOMAIN map \cup {component} |->
        IF n = component THEN [updated EXCEPT !.updated_at = now] ELSE map[n]]

\* a component that is healthy again starts counting from zero
MarkOkResetsCount(map, component, now, now2) ==
    upsert_component(map, component, now,
        [EntryOf(map, component, now) EXCEPT !.status = "ok",
                                             !.last_ok = Some(now2),
                                             !.last_error = None,
                                             !.restart_count = 0])

\* mark_component_ok: the closure reads the clock again (now2) for last_ok
mark_component_ok(map, component, now, now2) ==
    upsert_component(map, component, now,
        [EntryOf(map, component, now) EXCEPT !.status = "ok",
                                             !.last_ok = Some(now2),
                                             !.last_error = None])

\* an empty text is not recorded
MarkErrorSkipsEmpty(map, component, error, now) ==
    upsert_component(map, component, now,
        [EntryOf(map, component, now) EXCEPT
            !.status = "error",
            !.last_error = IF error = "" THEN @ ELSE Some(error)])

mark_component_error(map, component, error, now) ==
    upsert_component(map, component, now,
        [EntryOf(map, component, now) EXCEPT !.status = "error",
                                             !.last_error = Some(error)])

\* a restart counts as a sign of life
BumpSetsLastOk(map, component, now) ==
    upsert_component(map, component, now,
        [EntryOf(map, component, now) EXCEPT
            !.restart_count = SaturatingAdd(@, 1),
            !.last_ok = Some(now)])

bump_component_restart(map, component, now) ==
    upsert_component(map, component, now,
        [EntryOf(map, component, now) EXCEPT
            !.restart_count = SaturatingAdd(@, 1)])

\* structured_error(what, why, fix): the pieces of the formatted text, in order
structured_error(what, why, fix) ==
    <<what, "\n  Cause: ">> \o why \o <<"\n  Fix: ", fix>>

\* snapshot(): a copy of the map, stamped with a clock reading (pid and
\* uptime_seconds are not modelled)
snapshot(map, now) == [updated_at |-> now, components |-> map]

\* callers on any thread: each function runs under the registry mutex; snap
\* is what the latest call returned, a snapshot or nothing
HealthMarkOk(n) ==
    /\ \E now \in now_rfc3339(clock) : \E now2 \in now_rfc3339(now) :
          /\ components' = mark_component_ok(components, n, now, now2)
          /\ clock' = now2
    /\ snap' = None
    /\ UNCHANGED <<supVars, runVars, pairVars, libVars, swVars>>

HealthMarkError(n, e) ==
    /\ \E now \in now_rfc3339(clock) :
          /\ components' = mark_component_error(components, n, e, now)
          /\ clock' = now
    /\ snap' = None
    /\ UNCHANGED <<supVars, runVars, pairVars, libVars, swVars>>

HealthBumpRestart(n) ==
    /\ \E now \in now_rfc3339(clock) :
          /\ components' = bump_component_restart(components, n, now)
          /\ clock' = now
    /\ snap' = None
    /\ UNCHANGED <<supVars, runVars, pairVars, libVars, swVars>>

HealthSnapshot ==
    /\ \E now \in now_rfc3339(clock) :
          /\ snap' = Some(snapshot(components, now))
          /\ clock' = now
    /\ UNCHANGED <<components, supVars, runVars, pairVars, libVars, swVars>>

----------------------------------------------------------------------------
(* Supervisor: run_supervised_component, src/daemon/mod.rs                  *)
(* The wall clock stands still here and in the orchestrator: the timestamps *)
(* of the registry are exercised in SpecHealth.                             *)

SupName == "gateway"
OkUnit == <<"Ok">>
Err(e) == <<"Err", e>>
Outcomes == {OkUnit} \cup {Err(e) : e \in ErrTexts}

\* u32::MAX scaled: the jitter draw `raw` ranges over 0..RawMax
RawMax == 2

\* daemon::run lines 37-41: the values run() hands to every supervisor
RunInitialBackoff(cfg_initial) == Max(cfg_initial, 1)
RunMaxBackoff(cfg_initial, cfg_max) == Max(cfg_max, RunInitialBackoff(cfg_initial))

\* lines 184-185
InitialBackoff(initial) == Max(initial, 1)
MaxBackoff(initial, maxb) == Max(maxb, InitialBackoff(initial))

\* line 217
NextBackoff(b, maxb) == Min(SaturatingMul(b, 2), maxb)

\* lines 202-216: factor = 0.75 + raw/u32::MAX * 0.5, jittered = (backoff *
\* factor) as u64 (a saturating cast), slept for jittered.max(1) seconds
Jittered(b, raw) == Min((b * (3 * RawMax + 2 * raw)) \div (4 * RawMax), MaxU)
SleepSecs(b, raw) == Max(Jittered(b, raw), 1)

\* the text mark_component_error receives for a factory outcome
ErrorText(o) == IF o = OkUnit THEN UnexpectedExit ELSE o[2]

\* no supervisor task exists
IdleSupVars ==
    /\ sup_pc = "none"
    /\ initial_backoff_secs = 0
    /\ max_backoff_secs = 0
    /\ backoff = 0
    /\ max_backoff = 0
    /\ outcome = None
    /\ inflight = 0
    /\ sleep_secs = 0
    /\ exits = 0

\* the task is spawned with its arguments, either any pair of u64 (the tests
\* call spawn_component_supervisor directly) or the pair run() computes
InitSupVars ==
    /\ sup_pc = "spawned"
    /\ \E ci \in U64, cm \in U64 :
          \/ /\ initial_backoff_secs = ci
             /\ max_backoff_secs = cm
          \/ /\ initial_backoff_secs = RunInitialBackoff(ci)
             /\ max_backoff_secs = RunMaxBackoff(ci, cm)
    /\ backoff = InitialBackoff(initial_backoff_secs)
    /\ max_backoff = MaxBackoff(initial_backoff_secs, max_backoff_secs)
    /\ outcome = None
    /\ inflight = 0
    /\ sleep_secs = 0
    /\ exits = 0

\* line 188: top of the loop
SupMarkOk ==
    /\ sup_pc \in {"spawned", "loop"}
    /\ components' = mark_component_ok(components, SupName, clock, clock)
    /\ sup_pc' = "invoke"
    /\ UNCHANGED <<clock, snap, initial_backoff_secs, max_backoff_secs, backoff,
                   max_backoff, outcome, inflight, sleep_secs>>
    /\ UNCHANGED exits
    /\ UNCHANGED <<runVars, pairVars, libVars, swVars>>

\* line 189: run_component() makes a fresh future, which is then awaited
SupInvoke ==
    /\ sup_pc = "invoke"
    /\ inflight' = inflight + 1
    /\ sup_pc' = "awaiting"
    /\ UNCHANGED <<healthVars, initial_backoff_secs, max_backoff_secs, backoff,
                   max_backoff, outcome, sleep_secs>>
    /\ UNCHANGED exits
    /\ UNCHANGED <<runVars, pairVars, libVars, swVars>>

\* the completed future is kept alive
FactoryExitKeepsFuture(o) ==
    /\ sup_pc = "awaiting"
    /\ outcome' = Some(o)
    /\ inflight' = inflight
    /\ sup_pc' = "exited"
    /\ UNCHANGED <<healthVars, initial_backoff_secs, max_backoff_secs, backoff,
                   max_backoff, sleep_secs>>
    /\ exits' = SaturatingAdd(exits, 1)
    /\ UNCHANGED <<runVars, pairVars, libVars, swVars>>

\* line 189: the awaited future completes with o and is dropped
FactoryExit(o) ==
    /\ sup_pc = "awaiting"
    /\ outcome' = Some(o)
    /\ inflight' = inflight - 1
    /\ sup_pc' = "exited"
    /\ UNCHANGED <<healthVars, initial_backoff_secs, max_backoff_secs, backoff,
                   max_backoff, sleep_secs>>
    /\ exits' = SaturatingAdd(exits, 1)
    /\ UNCHANGED <<runVars, pairVars, libVars, swVars>>

\* only Err(e) is recorded; Ok(()) counts as a clean exit
SupMarkErrorOnErrOnly ==
    /\ sup_pc = "exited"
    /\ components' =
          IF outcome = Some(OkUnit) THEN components
          ELSE mark_component_error(components, SupName, ErrorText(outcome[1]),
                                    clock)
    /\ sup_pc' = "bump"
    /\ UNCHANGED <<clock, snap, initial_backoff_secs, max_backoff_secs, backoff,
                   max_backoff, outcome, inflight, sleep_secs>>
    /\ UNCHANGED exits
    /\ UNCHANGED <<runVars, pairVars, libVars, swVars>>

\* lines 190-198
SupMarkError ==
    /\ sup_pc = "exited"
    /\ components' =
          mark_component_error(components, SupName, ErrorText(outcome[1]), clock)
    /\ sup_pc' = "bump"
    /\ UNCHANGED <<clock, snap, initial_backoff_secs, max_backoff_secs, backoff,
                   max_backoff, outcome, inflight, sleep_secs>>
    /\ UNCHANGED exits
    /\ UNCHANGED <<runVars, pairVars, libVars, swVars>>

\* lines 200-216: bump, draw the jitter, start the sleep
SupBump ==
    /\ sup_pc = "bump"
    /\ components' = bump_component_restart(components, SupName, clock)
    /\ \E raw \in 0..RawMax : sleep_secs' = SleepSecs(backoff, raw)
    /\ sup_pc' = "sleep"
    /\ UNCHANGED <<clock, snap, initial_backoff_secs, max_backoff_secs, backoff,
                   max_backoff, outcome, inflight>>
    /\ UNCHANGED exits
    /\ UNCHANGED <<runVars, pairVars, libVars, swVars>>

\* the loop ends when the factory returned Ok(())
SupWakeReturnsOnOk ==
    /\ sup_pc = "sleep"
    /\ backoff' = NextBackoff(backoff, max_backoff)
    /\ sleep_secs' = 0
    /\ sup_pc' = IF outcome = Some(OkUnit) THEN "returned" ELSE "loop"
    /\ UNCHANGED <<healthVars, initial_backoff_secs, max_backoff_secs,
                   max_backoff, outcome, inflight>>
    /\ UNCHANGED exits
    /\ UNCHANGED <<runVars, pairVars, libVars, swVars>>

\* the component is marked ok as soon as the sleep is over
SupWakeMarksOk ==
    /\ sup_pc = "sleep"
    /\ backoff' = NextBackoff(backoff, max_backoff)
    /\ sleep_secs' = 0
    /\ sup_pc' = "loop"
    /\ components' = mark_component_ok(components, SupName, clock, clock)
    /\ UNCHANGED <<clock, snap, initial_backoff_secs, max_backoff_secs,
                   max_backoff, outcome, inflight>>
    /\ UNCHANGED exits
    /\ UNCHANGED <<runVars, pairVars, libVars, swVars>>

\* lines 216-218: the sleep completes, the backoff doubles, the loop repeats
SupWake ==
    /\ sup_pc = "sleep"
    /\ backoff' = NextBackoff(backoff, max_backoff)
    /\ sleep_secs' = 0
    /\ sup_pc' = "loop"
    /\ UNCHANGED <<healthVars, initial_backoff_secs, max_backoff_secs,
                   max_backoff, outcome, inflight>>
    /\ UNCHANGED exits
    /\ UNCHANGED <<runVars, pairVars, libVars, swVars>>

\* the task can be cancelled between mark_error and bump_restart as well
SupAbortAnywhere ==
    /\ sup_pc \in {"spawned", "awaiting", "bump", "sleep"}
    /\ sup_pc' = "aborted"
    /\ inflight' = 0
    /\ UNCHANGED <<healthVars, initial_backoff_secs, max_backoff_secs, backoff,
                   max_backoff, outcome, sleep_secs>>
    /\ UNCHANGED exits
    /\ UNCHANGED <<runVars, pairVars, libVars, swVars>>

\* JoinHandle::abort / JoinSet::abort_all: the task is cancelled before its
\* first poll or at an await (the factory future, the sleep); what it holds is
\* dropped
SupAbort ==
    /\ sup_pc \in {"spawned", "awaiting", "sleep"}
    /\ sup_pc' = "aborted"
    /\ inflight' = 0
    /\ UNCHANGED <<healthVars, initial_backoff_secs, max_backoff_secs, backoff,
                   max_backoff, outcome, sleep_secs>>
    /\ UNCHANGED exits
    /\ UNCHANGED <<runVars, pairVars, libVars, swVars>>


----------------------------------------------------------------------------
(* Daemon orchestrator: run, src/daemon/mod.rs *)

\* daemon processes started on one config directory
NInst == 3
Instances == 1..NInst

LockPath == "<config-dir>/daemon.lock"

\* lines 25-34: the error of a failed try_lock_exclusive
LockHeldError ==
    structured_error("Failed to start daemon",
                     <<"another instance holds the lock (", LockPath, ")">>,
                     "stop the existing daemon with Ctrl+C or remove the lock file")
CreateError == <<"Failed to create daemon lock file">>
SignalError == <<"ctrl_c failed">>
OkResult == <<"Ok">>

\* the lock is advisory only: every attempt is granted
LockGrantedAlways(held, i) == TRUE

\* fs2 try_lock_exclusive on handle i: granted iff no other open handle of the
\* file holds the lock
LockGranted(held, i) == \A j \in Instances \ {i} : ~held[j]

\* lines 51-111: the tasks run() spawns for a configuration
SpawnedTasks(c) ==
    {"state_writer", "gateway", "scheduler"}
        \cup (IF c.channels THEN {"channels"} ELSE {})
        \cup (IF c.heartbeat THEN {"heartbeat"} ELSE {})

InitRunVars ==
    /\ run_pc = [i \in Instances |-> "idle"]
    /\ locked = [i \in Instances |-> FALSE]
    /\ result = [i \in Instances |-> None]
    /\ health = [i \in Instances |-> <<>>]
    /\ tasks = [i \in Instances |-> {}]
    /\ cfg = [i \in Instances |-> [heartbeat |-> FALSE, channels |-> FALSE]]

InitSwVars ==
    /\ sw_pc = [i \in Instances |-> "none"]
    /\ sw_due = [i \in Instances |-> 0]
    /\ sw_write = [i \in Instances |-> None]
    /\ sw_ret = [i \in Instances |-> None]

\* lines 13-24: the process starts with some configuration and creates the
\* lock file; a failed create returns at once
RunCreate(i) ==
    /\ run_pc[i] = "idle"
    /\ \E hb \in BOOLEAN, ch \in BOOLEAN :
          cfg' = [cfg EXCEPT ![i] = [heartbeat |-> hb, channels |-> ch]]
    /\ \/ /\ run_pc' = [run_pc EXCEPT ![i] = "try_lock"]
          /\ UNCHANGED result
       \/ /\ run_pc' = [run_pc EXCEPT ![i] = "returned"]
          /\ result' = [result EXCEPT ![i] = Some(CreateError)]
    /\ UNCHANGED <<locked, health, tasks>>
    /\ UNCHANGED <<healthVars, supVars, pairVars, libVars, swVars>>

\* the failed attempt is ignored (.ok() in place of `?`)
RunTryLockIgnoresFailure(i) ==
    /\ run_pc[i] = "try_lock"
    /\ locked' = [locked EXCEPT ![i] = LockGranted(locked, i)]
    /\ run_pc' = [run_pc EXCEPT ![i] = "mark_ok"]
    /\ UNCHANGED <<result, health, tasks, cfg>>
    /\ UNCHANGED <<healthVars, supVars, pairVars, libVars, swVars>>

\* lines 25-34
RunTryLock(i) ==
    /\ run_pc[i] = "try_lock"
    /\ IF LockGranted(locked, i)
       THEN /\ locked' = [locked EXCEPT ![i] = TRUE]
            /\ run_pc' = [run_pc EXCEPT ![i] = "mark_ok"]
            /\ UNCHANGED result
       ELSE /\ result' = [result EXCEPT ![i] = Some(LockHeldError)]
            /\ run_pc' = [run_pc EXCEPT ![i] = "returned"]
            /\ UNCHANGED locked
    /\ UNCHANGED <<health, tasks, cfg>>
    /\ UNCHANGED <<healthVars, supVars, pairVars, libVars, swVars>>

\* line 43
RunMarkOk(i) ==
    /\ run_pc[i] = "mark_ok"
    /\ health' = [health EXCEPT
                    ![i] = mark_component_ok(@, "daemon", clock, clock)]
    /\ run_pc' = [run_pc EXCEPT ![i] = "spawn"]
    /\ UNCHANGED <<locked, result, tasks, cfg>>
    /\ UNCHANGED <<healthVars, supVars, pairVars, libVars, swVars>>

\* lines 51-111
RunSpawn(i) ==
    /\ run_pc[i] = "spawn"
    /\ tasks' = [tasks EXCEPT ![i] = SpawnedTasks(cfg[i])]
    /\ health' = [health EXCEPT
                    ![i] = IF cfg[i].channels THEN @
                           ELSE mark_component_ok(@, "channels", clock, clock)]
    /\ run_pc' = [run_pc EXCEPT ![i] = "ctrl_c"]
    /\ sw_pc' = [sw_pc EXCEPT ![i] = "tick"]
    /\ sw_due' = [sw_due EXCEPT ![i] = 0]
    /\ UNCHANGED <<locked, result, cfg, sw_write, sw_ret>>
    /\ UNCHANGED <<healthVars, supVars, pairVars, libVars>>

\* line 137: the signal arrives, or waiting for it fails and `?` returns: the
\* JoinSet is dropped, which aborts its tasks, and the lock file is dropped
RunCtrlC(i) ==
    /\ run_pc[i] = "ctrl_c"
    /\ \/ /\ run_pc' = [run_pc EXCEPT ![i] = "shutdown"]
          /\ UNCHANGED <<locked, result, tasks, sw_pc, sw_ret, sw_due>>
       \/ /\ run_pc' = [run_pc EXCEPT ![i] = "returned"]
          /\ result' = [result EXCEPT ![i] = Some(SignalError)]
          /\ tasks' = [tasks EXCEPT ![i] = {}]
          /\ sw_pc' = [sw_pc EXCEPT ![i] = "none"]
          /\ sw_ret' = [sw_ret EXCEPT ![i] = None]
          /\ sw_due' = [sw_due EXCEPT ![i] = 0]
          /\ locked' = [locked EXCEPT ![i] = FALSE]
    /\ UNCHANGED <<health, cfg, sw_write>>
    /\ UNCHANGED <<healthVars, supVars, pairVars, libVars>>

\* line 138
RunMarkShutdown(i) ==
    /\ run_pc[i] = "shutdown"
    /\ health' = [health EXCEPT
          ![i] = mark_component_error(@, "daemon", "shutdown requested", clock)]
    /\ run_pc' = [run_pc EXCEPT ![i] = "abort"]
    /\ UNCHANGED <<locked, result, tasks, cfg>>
    /\ UNCHANGED <<healthVars, supVars, pairVars, libVars, swVars>>

\* run() goes on without aborting and joining its tasks
RunAbortJoinSkipped(i) ==
    /\ run_pc[i] = "abort"
    /\ run_pc' = [run_pc EXCEPT ![i] = "return"]
    /\ UNCHANGED <<locked, result, health, tasks, cfg, swVars>>
    /\ UNCHANGED <<healthVars, supVars, pairVars, libVars>>
\* lines 140-141: abort_all, then join until the set is empty; the state
\* writer's future is dropped at its await, and with it the handle of a
\* write on the blocking pool, which runs on
RunAbortJoin(i) ==
    /\ run_pc[i] = "abort"
    /\ tasks' = [tasks EXCEPT ![i] = {}]
    /\ sw_pc' = [sw_pc EXCEPT ![i] = "none"]
    /\ sw_ret' = [sw_ret EXCEPT ![i] = None]
    /\ sw_due' = [sw_due EXCEPT ![i] = 0]
    /\ run_pc' = [run_pc EXCEPT ![i] = "return"]
    /\ UNCHANGED <<locked, result, health, cfg, sw_write>>
    /\ UNCHANGED <<healthVars, supVars, pairVars, libVars>>

\* lines 143-144: Ok(()) is returned and lock_file is dropped
RunReturn(i) ==
    /\ run_pc[i] = "return"
    /\ result' = [result EXCEPT ![i] = Some(OkResult)]
    /\ locked' = [locked EXCEPT ![i] = FALSE]
    /\ run_pc' = [run_pc EXCEPT ![i] = "returned"]
    /\ UNCHANGED <<health, tasks, cfg>>
    /\ UNCHANGED <<healthVars, supVars, pairVars, libVars, swVars>>

\* line 10
STATUS_FLUSH_SECONDS == 5

\* the errors of atomic_write (src/security/atomic_write.rs)
CreateTmpError == "Failed to create temp file"
WriteTmpError == "Failed to write data to temp file"
FsyncTmpError == "Failed to fsync temp file"
RenameError == "Failed to rename"
TaskPanicked == "Atomic write task panicked"
\* atomic_write_async (src/security/atomic_write.rs lines 46-51): what the
\* awaited write gives back: Ok, an error of atomic_write (the one of the
\* rename stands for the four) or the error of a panicked blocking task
WriteOutcomes == {OkUnit} \cup {Err(e) : e \in {RenameError, TaskPanicked}}

\* lines 163-169: snapshot_json() of the process' registry with written_at
WrittenJson(i) == [snapshot |-> snapshot(health[i], clock), written_at |-> clock]

\* line 160: STATUS_FLUSH_SECONDS pass and the interval's next tick is due
\* (the first tick is due at once)
SwElapse(i) ==
    /\ sw_pc[i] \in {"tick", "await"}
    /\ sw_due[i] > 0
    /\ sw_due' = [sw_due EXCEPT ![i] = 0]
    /\ UNCHANGED <<sw_pc, sw_write, sw_ret>>
    /\ UNCHANGED <<healthVars, supVars, runVars, pairVars, libVars>>

\* lines 162-171: the tick completes; the snapshot is taken, written_at is
\* added and atomic_write_async hands the write to the blocking pool
SwTick(i) ==
    /\ sw_pc[i] = "tick"
    /\ sw_due[i] = 0
    /\ sw_due' = [sw_due EXCEPT ![i] = STATUS_FLUSH_SECONDS]
    /\ sw_write' = [sw_write EXCEPT ![i] = Some(WrittenJson(i))]
    /\ sw_ret' = [sw_ret EXCEPT ![i] = None]
    /\ sw_pc' = [sw_pc EXCEPT ![i] = "await"]
    /\ UNCHANGED <<healthVars, supVars, runVars, pairVars, libVars>>

\* the state writer returns when a write fails
SwWriteDoneStopsOnError(i, o) ==
    /\ sw_write[i] # None
    /\ sw_write' = [sw_write EXCEPT ![i] = None]
    /\ IF sw_pc[i] = "await"
       THEN /\ sw_pc' = [sw_pc EXCEPT ![i] = IF o = OkUnit THEN "tick" ELSE "none"]
            /\ sw_ret' = [sw_ret EXCEPT ![i] = Some(o)]
       ELSE UNCHANGED <<sw_pc, sw_ret>>
    /\ UNCHANGED sw_due
    /\ UNCHANGED <<healthVars, supVars, runVars, pairVars, libVars>>
\* line 171: the write on the blocking pool ends; if the state writer still
\* awaits it, it drops the result (let _ =) and goes back to the top of its
\* loop
SwWriteDone(i, o) ==
    /\ sw_write[i] # None
    /\ sw_write' = [sw_write EXCEPT ![i] = None]
    /\ IF sw_pc[i] = "await"
       THEN /\ sw_pc' = [sw_pc EXCEPT ![i] = "tick"]
            /\ sw_ret' = [sw_ret EXCEPT ![i] = Some(o)]
       ELSE UNCHANGED <<sw_pc, sw_ret>>
    /\ UNCHANGED sw_due
    /\ UNCHANGED <<healthVars, supVars, runVars, pairVars, libVars>>

----------------------------------------------------------------------------
(* Pairing guard: src/security/pairing.rs *)

MAX_PAIR_ATTEMPTS == 5
PAIR_LOCKOUT_SECS == 300
UPPER_BOUND == 1000000

\* threads of the gateway that call the guard
NCallers == 2
Callers == 1..NCallers
\* tokens generate_token can still make, failures the counter can still take
MaxTokens == 2
MaxFailed == 6

\* 8-bit operations on bytes
RECURSIVE BitXor(_, _)
BitXor(a, b) ==
    IF a = 0 /\ b = 0 THEN 0
    ELSE (IF a % 2 # b % 2 THEN 1 ELSE 0) + 2 * BitXor(a \div 2, b \div 2)
RECURSIVE BitOr(_, _)
BitOr(a, b) ==
    IF a = 0 /\ b = 0 THEN 0
    ELSE (IF a % 2 = 1 \/ b % 2 = 1 THEN 1 ELSE 0) + 2 * BitOr(a \div 2, b \div 2)

\* the ASCII bytes char::is_whitespace accepts
IsWhitespace(b) == b \in {9, 10, 11, 12, 13, 32}

\* str::trim
RECURSIVE TrimStart(_)
TrimStart(s) ==
    IF s # <<>> /\ IsWhitespace(Head(s)) THEN TrimStart(Tail(s)) ELSE s
RECURSIVE TrimEnd(_)
TrimEnd(s) ==
    IF s # <<>> /\ IsWhitespace(s[Len(s)])
    THEN TrimEnd(SubSeq(s, 1, Len(s) - 1)) ELSE s
trim(s) == TrimEnd(TrimStart(s))

\* lines 138-142: the bitwise or of x ^ y over the positions lo..hi, a missing
\* byte read as 0; the or is taken by halves, which gives the loop's value
RECURSIVE DiffOver(_, _, _, _)
DiffOver(a, b, lo, hi) ==
    IF lo > hi THEN 0
    ELSE IF lo = hi
    THEN LET x == IF lo <= Len(a) THEN a[lo] ELSE 0
             y == IF lo <= Len(b) THEN b[lo] ELSE 0
         IN  BitXor(x, y)
    ELSE LET mid == (lo + hi) \div 2
         IN  BitOr(DiffOver(a, b, lo, mid), DiffOver(a, b, mid + 1, hi))
\* lines 132-144: diff starts as the xor of the lengths cut to 8 bits and
\* collects the xor of the bytes at every position up to the longer length
constant_time_eq(a, b) ==
    BitOr(BitXor(Len(a), Len(b)) % 256,
          DiffOver(a, b, 1, Max(Len(a), Len(b)))) = 0

\* format!("{:06}", n), as ASCII digits
RECURSIVE Pow10(_)
Pow10(k) == IF k = 0 THEN 1 ELSE 10 * Pow10(k - 1)
Format06(n) == [d \in 1..6 |-> 48 + ((n \div Pow10(6 - d)) % 10)]

\* lines 110-124: an accepted draw raw (below REJECT_THRESHOLD; a rejected one
\* is drawn again) gives the code
generate_code(raw) == Format06(raw % UPPER_BOUND)
RawDraws == {0, 123456, 1123456, 2000042}

\* lines 126-128: "bh_" and the hex digits of a fresh UUID; the k-th UUID
\* drawn is rendered as two hex digits of k
HexDigit(d) == IF d < 10 THEN 48 + d ELSE 87 + d
BhPrefix == <<98, 104, 95>>
generate_token(k) == BhPrefix \o <<HexDigit((k \div 16) % 16), HexDigit(k % 16)>>

ExistingTokens == {<<98, 104, 95, 111, 108, 100>>}

\* codes a client may present
Code000000 == Format06(0)
Code123456 == Format06(123456)
CodeInputs ==
    {<<>>, <<32, 32>>, Code000000, Code123456,
     <<32>> \o Code123456 \o <<13, 10>>, <<9>> \o Code000000,
     SubSeq(Code123456, 1, 5), Code123456 \o <<48>>,
     <<49, 50, 51, 32, 52, 53, 54>>,
     Code123456 \o [i \in 1..256 |-> 0]}

\* Instant::elapsed().as_secs() of the lockout instant: its age in whole
\* seconds; ages from PAIR_LOCKOUT_SECS on are not told apart
Elapsed(locked_at) == locked_at[1]

LockedOut(attempts) ==
    /\ attempts[2] # None
    /\ attempts[1] >= MAX_PAIR_ATTEMPTS
    /\ Elapsed(attempts[2]) < PAIR_LOCKOUT_SECS

OkRet(v) == <<"Ok", v>>
ErrRet(secs) == <<"Err", secs>>
NoRets == [t \in Callers |-> None]

\* no guard exists
IdlePairVars ==
    /\ require_pairing = FALSE
    /\ pairing_code = None
    /\ paired_tokens = {}
    /\ failed_attempts = <<0, None>>
    /\ uuid_next = 0
    /\ pair_pc = [t \in Callers |-> "idle"]
    /\ pair_ret = NoRets

\* lines 27-40: PairingGuard::new(require_pairing, existing_tokens)
InitPairVars ==
    /\ require_pairing \in BOOLEAN
    /\ paired_tokens \in SUBSET ExistingTokens
    /\ IF require_pairing /\ paired_tokens = {}
       THEN \E raw \in RawDraws : pairing_code = Some(generate_code(raw))
       ELSE pairing_code = None
    /\ failed_attempts = <<0, None>>
    /\ uuid_next = 0
    /\ pair_pc = [t \in Callers |-> "idle"]
    /\ pair_ret = NoRets

\* the correct code does not clear the failures
PairResetKeepsFailures(t) ==
    /\ pair_pc[t] = "reset"
    /\ pair_pc' = [pair_pc EXCEPT ![t] = "insert"]
    /\ pair_ret' = NoRets
    /\ UNCHANGED <<require_pairing, pairing_code, paired_tokens, uuid_next,
                   failed_attempts>>
    /\ UNCHANGED <<healthVars, supVars, runVars, libVars, swVars>>

\* a call rejected inside the window starts the window again
PairCheckExtendsLockout(t, code) ==
    /\ pair_pc[t] = "idle"
    /\ IF LockedOut(failed_attempts)
       THEN /\ pair_ret' = [NoRets EXCEPT ![t] =
                   ErrRet(PAIR_LOCKOUT_SECS - Elapsed(failed_attempts[2]))]
            /\ failed_attempts' = <<failed_attempts[1], Some(0)>>
            /\ UNCHANGED pair_pc
       ELSE /\ pair_pc' = [pair_pc EXCEPT ![t] =
                   IF /\ pairing_code # None
                      /\ constant_time_eq(trim(code), trim(pairing_code[1]))
                   THEN "reset" ELSE "increment"]
            /\ pair_ret' = NoRets
            /\ UNCHANGED failed_attempts
    /\ UNCHANGED <<require_pairing, pairing_code, paired_tokens, uuid_next>>
    /\ UNCHANGED <<healthVars, supVars, runVars, libVars, swVars>>

\* a guard without a code accepts "000000"
PairCheckDefaultCode(t, code) ==
    /\ pair_pc[t] = "idle"
    /\ IF LockedOut(failed_attempts)
       THEN /\ pair_ret' = [NoRets EXCEPT ![t] =
                   ErrRet(PAIR_LOCKOUT_SECS - Elapsed(failed_attempts[2]))]
            /\ UNCHANGED pair_pc
       ELSE /\ pair_pc' = [pair_pc EXCEPT ![t] =
                   IF constant_time_eq(trim(code),
                          IF pairing_code # None THEN trim(pairing_code[1])
                          ELSE Code000000)
                   THEN "reset" ELSE "increment"]
            /\ pair_ret' = NoRets
    /\ UNCHANGED <<require_pairing, pairing_code, paired_tokens,
                   failed_attempts, uuid_next>>
    /\ UNCHANGED <<healthVars, supVars, runVars, libVars, swVars>>

\* lines 51-66: try_pair(code) checks the lockout under the failed_attempts
\* mutex and returns Err(remaining) inside the window; otherwise it compares
\* the trimmed code with the trimmed pairing code, which never changes
PairCheck(t, code) ==
    /\ pair_pc[t] = "idle"
    /\ IF LockedOut(failed_attempts)
       THEN /\ pair_ret' = [NoRets EXCEPT ![t] =
                   ErrRet(PAIR_LOCKOUT_SECS - Elapsed(failed_attempts[2]))]
            /\ UNCHANGED pair_pc
       ELSE /\ pair_pc' = [pair_pc EXCEPT ![t] =
                   IF /\ pairing_code # None
                      /\ constant_time_eq(trim(code), trim(pairing_code[1]))
                   THEN "reset" ELSE "increment"]
            /\ pair_ret' = NoRets
    /\ UNCHANGED <<require_pairing, pairing_code, paired_tokens,
                   failed_attempts, uuid_next>>
    /\ UNCHANGED <<healthVars, supVars, runVars, libVars, swVars>>

\* lines 67-71: the failures are reset under the failed_attempts mutex
PairReset(t) ==
    /\ pair_pc[t] = "reset"
    /\ failed_attempts' = <<0, None>>
    /\ pair_pc' = [pair_pc EXCEPT ![t] = "insert"]
    /\ pair_ret' = NoRets
    /\ UNCHANGED <<require_pairing, pairing_code, paired_tokens, uuid_next>>
    /\ UNCHANGED <<healthVars, supVars, runVars, libVars, swVars>>

\* lines 72-75: a token is generated, inserted under the paired_tokens mutex
\* and returned
PairInsert(t) ==
    /\ pair_pc[t] = "insert"
    /\ uuid_next < MaxTokens
    /\ LET token == generate_token(uuid_next + 1)
       IN  /\ paired_tokens' = paired_tokens \cup {token}
           /\ pair_ret' = [NoRets EXCEPT ![t] = OkRet(Some(token))]
    /\ uuid_next' = uuid_next + 1
    /\ pair_pc' = [pair_pc EXCEPT ![t] = "idle"]
    /\ UNCHANGED <<require_pairing, pairing_code, failed_attempts>>
    /\ UNCHANGED <<healthVars, supVars, runVars, libVars, swVars>>

\* lines 79-88: the failure is counted under the failed_attempts mutex, the
\* lockout instant is set to now from MAX_PAIR_ATTEMPTS on, Ok(None) returned
PairIncrement(t) ==
    /\ pair_pc[t] = "increment"
    /\ failed_attempts[1] < MaxFailed
    /\ LET count == failed_attempts[1] + 1
       IN  failed_attempts' =
              <<count, IF count >= MAX_PAIR_ATTEMPTS THEN Some(0)
                       ELSE failed_attempts[2]>>
    /\ pair_ret' = [NoRets EXCEPT ![t] = OkRet(None)]
    /\ pair_pc' = [pair_pc EXCEPT ![t] = "idle"]
    /\ UNCHANGED <<require_pairing, pairing_code, paired_tokens, uuid_next>>
    /\ UNCHANGED <<healthVars, supVars, runVars, libVars, swVars>>

\* tokens a client may present as its bearer token
TokenInputs ==
    ExistingTokens \cup {generate_token(k) : k \in 1..MaxTokens}
        \cup {<<>>, <<98, 104, 95, 119>>}
AuthRet(b) == <<"Auth", b>>

\* is_authenticated looks the token up although pairing is not required
IsAuthenticatedIgnoresFlag(token) == token \in paired_tokens
\* lines 91-97: true without a lookup when pairing is not required, otherwise
\* membership in paired_tokens
is_authenticated(token) ==
    IF ~require_pairing THEN TRUE ELSE token \in paired_tokens

\* a call of is_authenticated, one critical section of the paired_tokens mutex
PairIsAuthenticated(t, token) ==
    /\ pair_pc[t] = "idle"
    /\ pair_ret' = [NoRets EXCEPT ![t] = AuthRet(is_authenticated(token))]
    /\ UNCHANGED <<require_pairing, pairing_code, paired_tokens,
                   failed_attempts, uuid_next, pair_pc>>
    /\ UNCHANGED <<healthVars, supVars, runVars, libVars, swVars>>

\* a second passes on the monotonic clock
PairTick ==
    /\ failed_attempts[2] # None
    /\ Elapsed(failed_attempts[2]) < PAIR_LOCKOUT_SECS
    /\ failed_attempts' =
          <<failed_attempts[1], Some(Elapsed(failed_attempts[2]) + 1)>>
    /\ pair_ret' = NoRets
    /\ UNCHANGED <<require_pairing, pairing_code, paired_tokens, uuid_next,
                   pair_pc>>
    /\ UNCHANGED <<healthVars, supVars, runVars, libVars, swVars>>

----------------------------------------------------------------------------
(* constant_time_eq on its own: src/security/pairing.rs, lines 132-144 *)

\* the longest string that is written out, before any padding
MaxCteLen == 2
\* bytes a &str can hold: NUL and two letters
CteBytes == {0, 97, 98}
RECURSIVE StringsUpTo(_)
StringsUpTo(n) ==
    IF n = 0 THEN {<<>>}
    ELSE LET shorter == StringsUpTo(n - 1)
         IN  shorter \cup {Append(x, c) : x \in shorter, c \in CteBytes}
\* 256 NUL bytes
Nul256 == [i \in 1..256 |-> 0]
\* the arguments: short strings, and the same followed by 256 NUL bytes
CteInputs ==
    LET short == StringsUpTo(MaxCteLen)
    IN  short \cup {x \o Nul256 : x \in short}

IdleCteVars ==
    /\ cte_a = <<>>
    /\ cte_b = <<>>
    /\ cte_ret = None

InitCteVars ==
    /\ cte_a \in CteInputs
    /\ cte_b \in CteInputs
    /\ cte_ret = None

\* constant_time_eq(a, b) is called and returns
CteCall ==
    /\ cte_ret = None
    /\ cte_ret' = Some(constant_time_eq(cte_a, cte_b))
    /\ UNCHANGED <<cte_a, cte_b>>
    /\ UNCHANGED <<coreVars, relVars, awVars, httpVars, jitVars, zVars>>

\* the caller takes the next pair of arguments
CteNext(a, b) ==
    /\ cte_ret # None
    /\ cte_a' = a
    /\ cte_b' = b
    /\ cte_ret' = None
    /\ UNCHANGED <<coreVars, relVars, awVars, httpVars, jitVars, zVars>>

----------------------------------------------------------------------------
(* Reliable caller: src/providers/reliable.rs *)

CACHE_TTL_SECS == 60
\* line 110: the ceiling of the backoff after a doubling, in ms
BACKOFF_CAP_MS == 10000
\* line 34: the floor of base_backoff_ms
BACKOFF_FLOOR_MS == 50

\* the provider chain, in fallback order
NProviders == 2
Providers == 1..NProviders
\* the largest max_retries configured
MaxRetries == 2
\* tasks that call chat_with_system
NTasks == 2
Tasks == 1..NTasks
\* seconds between two readings of the monotonic clock
TickSecs == 30

ProviderName(p) == <<"provider", p>>
\* what one invocation of provider p may return
Responses == {"a", "b"}
ProviderError(p) == <<"down", p>>
ProviderOutcomes(p) == {<<"Ok", r>> : r \in Responses} \cup {Err(ProviderError(p))}

\* the arguments of a call; the temperature is in tenths
Requests ==
    [message : {"hello", "bye"}, model : {"test"}, system_prompt : {None},
     temperature : {7}]
\* calls for one message that differ in system prompt and temperature
PromptedRequests ==
    [message : {"hello"}, model : {"test"},
     system_prompt : {None, Some("be brief")}, temperature : {0, 7}]
\* lines 39-44: the digest of message and model; two different pairs are
\* taken to have different digests
cache_key(message, model) == <<message, model>>
Keys == {cache_key(r.message, r.model) : r \in Requests}

\* line 34
BaseBackoff(base) == Max(base, BACKOFF_FLOOR_MS)
ConfiguredBackoffs == {0, 20000}

\* line 96: "{provider_name} attempt {attempt + 1}/{max_retries + 1}: {e}"
FailureLine(p, attempt, e) == <<ProviderName(p), attempt + 1, max_retries + 1, e>>
\* line 119: the header and the lines joined by newlines
AllFailed(failures) == <<"All providers failed. Attempts:", failures>>

\* a frame of chat_with_system that is not running
IdleCall ==
    [pc |-> "idle", key |-> None, entry |-> None, provider |-> 0,
     attempt |-> 0, backoff_ms |-> 0, failures |-> <<>>,
     invoked |-> [p \in Providers |-> 0], ret |-> None, slept |-> <<>>,
     req |-> None]
\* lines 66-71: the frame when the loop over the chain begins; entry is the
\* expired entry the lookup found, if any
LoopStart(key, entry) ==
    [pc |-> "attempt", key |-> Some(key), entry |-> entry, provider |-> 1,
     attempt |-> 0, backoff_ms |-> base_backoff_ms, failures |-> <<>>,
     invoked |-> [p \in Providers |-> 0], ret |-> None, slept |-> <<>>,
     req |-> None]

\* slept is the record of the call's sleeps, one entry per sleep with the
\* provider that had failed and the backoff handed to apply_jitter
SleepEntry(c) == [provider |-> c.provider, backoff_ms |-> c.backoff_ms]

\* no caller exists
IdleRelVars ==
    /\ max_retries = 0
    /\ base_backoff_ms = BACKOFF_FLOOR_MS
    /\ cache = [k \in Keys |-> None]
    /\ calls = [t \in Tasks |-> IdleCall]
    /\ in_flight = {}

\* lines 26-37: ReliableProvider::new
InitRelVars ==
    /\ max_retries \in 0..MaxRetries
    /\ \E base \in ConfiguredBackoffs : base_backoff_ms = BaseBackoff(base)
    /\ cache = [k \in Keys |-> None]
    /\ calls = [t \in Tasks |-> IdleCall]
    /\ in_flight = {}

\* line 59: created_at.elapsed().as_secs() of an entry, its age in whole
\* seconds; ages from CACHE_TTL_SECS on are not told apart
Fresh(entry) == entry.age < CACHE_TTL_SECS

\* the cache hands out an entry that has reached the TTL
FreshAtTtl(entry) == entry.age <= CACHE_TTL_SECS

\* an entry is not used for a call that has a system prompt
RelCallMissesOnPrompt(t, req) ==
    /\ calls[t].pc = "idle"
    /\ LET key == cache_key(req.message, req.model)
       IN  calls' = [calls EXCEPT ![t] =
              IF cache[key] = None \/ req.system_prompt # None
              THEN [LoopStart(key, None) EXCEPT !.req = Some(req)]
              ELSE IF Fresh(cache[key][1])
              THEN [IdleCall EXCEPT !.pc = "done", !.key = Some(key),
                                    !.req = Some(req),
                                    !.ret = Some(<<"Ok", cache[key][1].content>>)]
              ELSE [IdleCall EXCEPT !.pc = "evict", !.key = Some(key),
                                    !.req = Some(req),
                                    !.entry = cache[key]]]
    /\ UNCHANGED <<max_retries, base_backoff_ms, cache, in_flight>>
    /\ UNCHANGED <<coreVars, cteVars, awVars, httpVars, jitVars, zVars>>
\* lines 56-64: the cache is looked up under the entry's read guard; a fresh
\* entry is returned, an expired one is let go and is to be removed, and with
\* no entry the loop over the chain begins; req is kept in the frame, it is
\* what the providers are called with
RelCall(t, req) ==
    /\ calls[t].pc = "idle"
    /\ LET key == cache_key(req.message, req.model)
       IN  calls' = [calls EXCEPT ![t] =
              IF cache[key] = None
              THEN [LoopStart(key, None) EXCEPT !.req = Some(req)]
              ELSE IF Fresh(cache[key][1])
              THEN [IdleCall EXCEPT !.pc = "done", !.key = Some(key),
                                    !.req = Some(req),
                                    !.ret = Some(<<"Ok", cache[key][1].content>>)]
              ELSE [IdleCall EXCEPT !.pc = "evict", !.key = Some(key),
                                    !.req = Some(req),
                                    !.entry = cache[key]]]
    /\ UNCHANGED <<max_retries, base_backoff_ms, cache, in_flight>>
    /\ UNCHANGED <<coreVars, cteVars, awVars, httpVars, jitVars, zVars>>

\* line 63: cache.remove(&key) takes out whatever entry the key has now
RelEvict(t) ==
    /\ calls[t].pc = "evict"
    /\ cache' = [cache EXCEPT ![calls[t].key[1]] = None]
    /\ calls' = [calls EXCEPT ![t] =
          [LoopStart(calls[t].key[1], calls[t].entry) EXCEPT !.req = calls[t].req]]
    /\ UNCHANGED <<max_retries, base_backoff_ms, in_flight>>
    /\ UNCHANGED <<coreVars, cteVars, awVars, httpVars, jitVars, zVars>>

\* lines 72-74: the provider is invoked and the call waits for it
RelInvoke(t) ==
    /\ calls[t].pc = "attempt"
    /\ LET p == calls[t].provider
       IN  /\ in_flight' = in_flight \cup {<<t, p>>}
           /\ calls' = [calls EXCEPT ![t].pc = "in_flight",
                                      ![t].invoked[p] = @ + 1]
    /\ UNCHANGED <<max_retries, base_backoff_ms, cache>>
    /\ UNCHANGED <<coreVars, cteVars, awVars, httpVars, jitVars, zVars>>

\* the lines are collected per provider and not over the whole call
RelFailedDropsLines(t, e) ==
    LET c == calls[t]
        line == FailureLine(c.provider, c.attempt, e)
    IN  IF c.attempt < max_retries
        THEN [c EXCEPT !.pc = "sleep", !.failures = Append(@, line),
                       !.slept = Append(@, SleepEntry(c))]
        ELSE IF c.provider < NProviders
        THEN [c EXCEPT !.pc = "attempt", !.failures = <<>>,
                       !.provider = @ + 1, !.attempt = 0,
                       !.backoff_ms = base_backoff_ms]
        ELSE [c EXCEPT !.pc = "done", !.failures = Append(@, line),
                       !.ret = Some(Err(AllFailed(Append(c.failures, line))))]
\* a failure makes the call fall back at once
RelFailedFallsBackAtOnce(t, e) ==
    LET c == calls[t]
        line == FailureLine(c.provider, c.attempt, e)
    IN  IF c.provider < NProviders
        THEN [c EXCEPT !.pc = "attempt", !.failures = Append(@, line),
                       !.provider = @ + 1, !.attempt = 0,
                       !.backoff_ms = base_backoff_ms]
        ELSE [c EXCEPT !.pc = "done", !.failures = Append(@, line),
                       !.ret = Some(Err(AllFailed(Append(c.failures, line))))]
\* lines 94-119: the frame after the attempt in flight has failed with e: the
\* line is recorded; before the last attempt the call sleeps, after it the
\* next provider starts at attempt 0 with the base backoff, and after the last
\* provider the call fails with every line
RelFailed(t, e) ==
    LET c == calls[t]
        line == FailureLine(c.provider, c.attempt, e)
    IN  IF c.attempt < max_retries
        THEN [c EXCEPT !.pc = "sleep", !.failures = Append(@, line),
                       !.slept = Append(@, SleepEntry(c))]
        ELSE IF c.provider < NProviders
        THEN [c EXCEPT !.pc = "attempt", !.failures = Append(@, line),
                       !.provider = @ + 1, !.attempt = 0,
                       !.backoff_ms = base_backoff_ms]
        ELSE [c EXCEPT !.pc = "done", !.failures = Append(@, line),
                       !.ret = Some(Err(AllFailed(Append(c.failures, line))))]

\* the caller starts the next attempt without awaiting the one in flight
RelCompleteLeavesInFlight(t, o) ==
    /\ calls[t].pc = "in_flight"
    /\ in_flight' = in_flight
    /\ IF o[1] = "Ok"
       THEN /\ cache' = [cache EXCEPT ![calls[t].key[1]] =
                            Some([content |-> o[2], age |-> 0])]
            /\ calls' = [calls EXCEPT ![t].pc = "done", ![t].ret = Some(o)]
       ELSE /\ calls' = [calls EXCEPT ![t] = RelFailed(t, o[2])]
            /\ UNCHANGED cache
    /\ UNCHANGED <<max_retries, base_backoff_ms>>
    /\ UNCHANGED <<coreVars, cteVars, awVars, httpVars, jitVars, zVars>>
\* the response is returned without being cached
RelCompleteSkipsCache(t, o) ==
    /\ calls[t].pc = "in_flight"
    /\ in_flight' = in_flight \ {<<t, calls[t].provider>>}
    /\ IF o[1] = "Ok"
       THEN calls' = [calls EXCEPT ![t].pc = "done", ![t].ret = Some(o)]
       ELSE calls' = [calls EXCEPT ![t] = RelFailed(t, o[2])]
    /\ UNCHANGED cache
    /\ UNCHANGED <<max_retries, base_backoff_ms>>
    /\ UNCHANGED <<coreVars, cteVars, awVars, httpVars, jitVars, zVars>>
\* lines 75-113: the attempt in flight ends with o; a response is cached with
\* a new instant and returned, a failure is recorded
RelComplete(t, o) ==
    /\ calls[t].pc = "in_flight"
    /\ in_flight' = in_flight \ {<<t, calls[t].provider>>}
    /\ IF o[1] = "Ok"
       THEN /\ cache' = [cache EXCEPT ![calls[t].key[1]] =
                            Some([content |-> o[2], age |-> 0])]
            /\ calls' = [calls EXCEPT ![t].pc = "done", ![t].ret = Some(o)]
       ELSE /\ calls' = [calls EXCEPT ![t] = RelFailed(t, o[2])]
            /\ UNCHANGED cache
    /\ UNCHANGED <<max_retries, base_backoff_ms>>
    /\ UNCHANGED <<coreVars, cteVars, awVars, httpVars, jitVars, zVars>>

\* the retry does not count as an attempt
RelWakeKeepsAttempt(t) ==
    /\ calls[t].pc = "sleep"
    /\ calls' = [calls EXCEPT ![t].pc = "attempt",
                               ![t].backoff_ms = Min(2 * @, BACKOFF_CAP_MS)]
    /\ UNCHANGED <<max_retries, base_backoff_ms, cache, in_flight>>
    /\ UNCHANGED <<coreVars, cteVars, awVars, httpVars, jitVars, zVars>>
\* the backoff stays what it was
RelWakeKeepsBackoff(t) ==
    /\ calls[t].pc = "sleep"
    /\ calls' = [calls EXCEPT ![t].pc = "attempt", ![t].attempt = @ + 1]
    /\ UNCHANGED <<max_retries, base_backoff_ms, cache, in_flight>>
    /\ UNCHANGED <<coreVars, cteVars, awVars, httpVars, jitVars, zVars>>
\* lines 108-110: the jittered sleep is over, the backoff doubles up to the
\* cap and the next attempt begins
RelWake(t) ==
    /\ calls[t].pc = "sleep"
    /\ calls' = [calls EXCEPT ![t].pc = "attempt", ![t].attempt = @ + 1,
                               ![t].backoff_ms = Min(2 * @, BACKOFF_CAP_MS)]
    /\ UNCHANGED <<max_retries, base_backoff_ms, cache, in_flight>>
    /\ UNCHANGED <<coreVars, cteVars, awVars, httpVars, jitVars, zVars>>

\* the caller has taken the result of chat_with_system
RelReturn(t) ==
    /\ calls[t].pc = "done"
    /\ calls' = [calls EXCEPT ![t] = IdleCall]
    /\ UNCHANGED <<max_retries, base_backoff_ms, cache, in_flight>>
    /\ UNCHANGED <<coreVars, cteVars, awVars, httpVars, jitVars, zVars>>

\* TickSecs seconds pass on the monotonic clock
RelTick ==
    /\ \E k \in Keys : cache[k] # None /\ Fresh(cache[k][1])
    /\ cache' = [k \in Keys |->
          IF cache[k] = None THEN None
          ELSE Some([cache[k][1] EXCEPT !.age = Min(@ + TickSecs, CACHE_TTL_SECS)])]
    /\ UNCHANGED <<max_retries, base_backoff_ms, calls, in_flight>>
    /\ UNCHANGED <<coreVars, cteVars, awVars, httpVars, jitVars, zVars>>

----------------------------------------------------------------------------
(* Atomic writer: src/security/atomic_write.rs *)

\* threads that call atomic_write
NWriters == 2
Writers == 1..NWriters
\* the longest data written
MaxDataLen == 2

\* a path is the file stem and the extension of a file of the directory
Paths == {<<"state", "json">>, <<"state", "tmp">>}
\* line 14: Path::with_extension replaces the extension
with_extension(path, ext) == <<path[1], ext>>
TmpPath(path) == with_extension(path, "tmp")

\* the data of a call: the bytes 1..n
DataInputs == {[i \in 1..n |-> i] : n \in 0..MaxDataLen}
\* what a file left by an earlier run holds
OldData == <<7, 7, 7, 7>>

\* a file is an inode: a name refers to one (0: no such name) and so does an
\* open handle, also after the name is gone
Inodes == 1..(Cardinality(Paths) + NWriters)
PathIndex(path) == IF path[2] = "json" THEN 1 ELSE 2
OpenInodes == {writers[w].fd : w \in Writers} \ {0}
LinkedInodes == {fs_names[q] : q \in Paths} \ {0}
FreeInode == CHOOSE i \in Inodes :
    /\ i \notin OpenInodes \cup LinkedInodes
    /\ \A j \in Inodes : j < i => j \in OpenInodes \cup LinkedInodes
\* the content of the file a name refers to
FileAt(path) == IF fs_names[path] = 0 THEN None ELSE Some(fs_data[fs_names[path]])


\* a frame of atomic_write that is not running; before is what the target
\* held when the call was made, kept to state what a call may change
IdleWriter ==
    [pc |-> "idle", path |-> None, data |-> <<>>, fd |-> 0, off |-> 0,
     ret |-> None, before |-> None]

\* nobody writes
IdleAwVars ==
    /\ parent_exists = TRUE
    /\ fs_names = [q \in Paths |-> 0]
    /\ fs_data = [i \in Inodes |-> <<>>]
    /\ writers = [w \in Writers |-> IdleWriter]

\* the directory may be missing; if it is there, each path may hold a file
\* of an earlier run
InitAwVars ==
    /\ parent_exists \in BOOLEAN
    /\ \E present \in SUBSET Paths :
          /\ ~parent_exists => present = {}
          /\ fs_names = [q \in Paths |->
                IF q \in present THEN PathIndex(q) ELSE 0]
          /\ fs_data = [i \in Inodes |->
                IF \E q \in present : PathIndex(q) = i THEN OldData ELSE <<>>]
    /\ writers = [w \in Writers |-> IdleWriter]

\* lines 13-14: atomic_write(path, data) is entered
AwCall(w, path, data) ==
    /\ writers[w].pc = "idle"
    /\ writers' = [writers EXCEPT ![w] =
          [IdleWriter EXCEPT !.pc = "create", !.path = Some(path), !.data = data,
                             !.before = FileAt(path)]]
    /\ UNCHANGED <<parent_exists, fs_names, fs_data>>
    /\ UNCHANGED <<coreVars, cteVars, relVars, httpVars, jitVars, zVars>>

\* File::create opens a temp file that exists as it is, without truncating
AwCreateNoTruncate(w, ok) ==
    /\ writers[w].pc = "create"
    /\ LET tmp == TmpPath(writers[w].path[1])
       IN  IF ok
           THEN /\ parent_exists
                /\ IF fs_names[tmp] # 0
                   THEN /\ UNCHANGED <<fs_names, fs_data>>
                        /\ writers' = [writers EXCEPT ![w].pc = "write",
                                                       ![w].fd = fs_names[tmp]]
                   ELSE /\ fs_names' = [fs_names EXCEPT ![tmp] = FreeInode]
                        /\ fs_data' = [fs_data EXCEPT ![FreeInode] = <<>>]
                        /\ writers' = [writers EXCEPT ![w].pc = "write",
                                                       ![w].fd = FreeInode]
           ELSE /\ writers' = [writers EXCEPT ![w].pc = "cleanup",
                                   ![w].ret = Some(Err(CreateTmpError))]
                /\ UNCHANGED <<fs_names, fs_data>>
    /\ UNCHANGED parent_exists
    /\ UNCHANGED <<coreVars, cteVars, relVars, httpVars, jitVars, zVars>>
\* lines 18-19: File::create(&tmp_path) truncates the file of that name or
\* makes an empty one; it fails when the directory is missing, and may fail
\* otherwise
AwCreate(w, ok) ==
    /\ writers[w].pc = "create"
    /\ LET tmp == TmpPath(writers[w].path[1])
       IN  IF ok
           THEN /\ parent_exists
                /\ IF fs_names[tmp] # 0
                   THEN /\ fs_data' = [fs_data EXCEPT ![fs_names[tmp]] = <<>>]
                        /\ UNCHANGED fs_names
                        /\ writers' = [writers EXCEPT ![w].pc = "write",
                                                       ![w].fd = fs_names[tmp]]
                   ELSE /\ fs_names' = [fs_names EXCEPT ![tmp] = FreeInode]
                        /\ fs_data' = [fs_data EXCEPT ![FreeInode] = <<>>]
                        /\ writers' = [writers EXCEPT ![w].pc = "write",
                                                       ![w].fd = FreeInode]
           ELSE /\ writers' = [writers EXCEPT ![w].pc = "cleanup",
                                   ![w].ret = Some(Err(CreateTmpError))]
                /\ UNCHANGED <<fs_names, fs_data>>
    /\ UNCHANGED parent_exists
    /\ UNCHANGED <<coreVars, cteVars, relVars, httpVars, jitVars, zVars>>

\* the bytes data[off+1..off+n] written at offset off of a file
WriteAt(content, data, off, n) ==
    [i \in 1..Max(Len(content), off + n) |->
        IF i > off /\ i <= off + n THEN data[i]
        ELSE IF i <= Len(content) THEN content[i] ELSE 0]

\* lines 20-21: write_all writes the data in one or more pieces at the
\* handle's offset; it may fail after any of them
AwWrite(w, n, ok) ==
    /\ writers[w].pc = "write"
    /\ LET c == writers[w]
           rest == Len(c.data) - c.off
       IN  IF ok
           THEN /\ n \in (IF rest = 0 THEN {0} ELSE 1..rest)
                /\ fs_data' = [fs_data EXCEPT ![c.fd] = WriteAt(@, c.data, c.off, n)]
                /\ writers' = [writers EXCEPT
                      ![w].off = c.off + n,
                      ![w].pc = IF c.off + n = Len(c.data) THEN "sync" ELSE "write"]
           ELSE /\ n = 0
                /\ writers' = [writers EXCEPT ![w].pc = "cleanup", ![w].fd = 0,
                                   ![w].ret = Some(Err(WriteTmpError))]
                /\ UNCHANGED fs_data
    /\ UNCHANGED <<parent_exists, fs_names>>
    /\ UNCHANGED <<coreVars, cteVars, relVars, httpVars, jitVars, zVars>>

\* lines 22-24: sync_all, after which the handle is closed
AwSync(w, ok) ==
    /\ writers[w].pc = "sync"
    /\ writers' = [writers EXCEPT ![w].fd = 0,
          ![w].pc = IF ok THEN "rename" ELSE "cleanup",
          ![w].ret = IF ok THEN None ELSE Some(Err(FsyncTmpError))]
    /\ UNCHANGED <<parent_exists, fs_names, fs_data>>
    /\ UNCHANGED <<coreVars, cteVars, relVars, httpVars, jitVars, zVars>>

\* the rename leaves the temp name in place
AwRenameKeepsTmp(w, ok) ==
    /\ writers[w].pc = "rename"
    /\ LET path == writers[w].path[1]
           tmp == TmpPath(path)
       IN  IF ok
           THEN /\ fs_names[tmp] # 0
                /\ fs_names' = [fs_names EXCEPT ![path] = fs_names[tmp]]
                /\ writers' = [writers EXCEPT ![w].pc = "done",
                                               ![w].ret = Some(OkUnit)]
           ELSE /\ UNCHANGED fs_names
                /\ writers' = [writers EXCEPT ![w].pc = "cleanup",
                                   ![w].ret = Some(Err(RenameError))]
    /\ UNCHANGED <<parent_exists, fs_data>>
    /\ UNCHANGED <<coreVars, cteVars, relVars, httpVars, jitVars, zVars>>
\* lines 32-33: fs::rename(&tmp_path, path) gives the temp file the name
\* path and takes the temp name away (nothing changes when the two names
\* are one); it fails when there is no file of the temp name, and may fail
\* otherwise
AwRename(w, ok) ==
    /\ writers[w].pc = "rename"
    /\ LET path == writers[w].path[1]
           tmp == TmpPath(path)
       IN  IF ok
           THEN /\ fs_names[tmp] # 0
                /\ fs_names' = [q \in Paths |->
                      IF q = path THEN fs_names[tmp]
                      ELSE IF q = tmp THEN 0 ELSE fs_names[q]]
                /\ writers' = [writers EXCEPT ![w].pc = "done",
                                               ![w].ret = Some(OkUnit)]
           ELSE /\ UNCHANGED fs_names
                /\ writers' = [writers EXCEPT ![w].pc = "cleanup",
                                   ![w].ret = Some(Err(RenameError))]
    /\ UNCHANGED <<parent_exists, fs_data>>
    /\ UNCHANGED <<coreVars, cteVars, relVars, httpVars, jitVars, zVars>>

\* the cleanup leaves the temp file where it is
AwCleanupSkipsRemove(w, ok) ==
    /\ writers[w].pc = "cleanup"
    /\ ok = FALSE
    /\ writers' = [writers EXCEPT ![w].pc = "done"]
    /\ UNCHANGED <<parent_exists, fs_names, fs_data>>
    /\ UNCHANGED <<coreVars, cteVars, relVars, httpVars, jitVars, zVars>>
\* lines 26-30 and 35: fs::remove_file(&tmp_path) takes the temp name away
\* if there is a file of that name; its result is ignored (it fails when
\* there is none, and may fail otherwise), and the error of the failed step
\* is returned
AwCleanup(w, ok) ==
    /\ writers[w].pc = "cleanup"
    /\ LET tmp == TmpPath(writers[w].path[1])
       IN  IF ok
           THEN /\ fs_names[tmp] # 0
                /\ fs_names' = [fs_names EXCEPT ![tmp] = 0]
           ELSE UNCHANGED fs_names
    /\ writers' = [writers EXCEPT ![w].pc = "done"]
    /\ UNCHANGED <<parent_exists, fs_data>>
    /\ UNCHANGED <<coreVars, cteVars, relVars, httpVars, jitVars, zVars>>

\* the process stops in the middle of atomic_write: nothing more is written
\* and the files stay as they are
AwCrash(w) ==
    /\ writers[w].pc \in {"create", "write", "sync", "rename", "cleanup"}
    /\ writers' = [writers EXCEPT ![w].pc = "crashed", ![w].fd = 0]
    /\ UNCHANGED <<parent_exists, fs_names, fs_data>>
    /\ UNCHANGED <<coreVars, cteVars, relVars, httpVars, jitVars, zVars>>

\* the caller has taken the result of atomic_write, or the process that
\* stopped has been started again
AwReturn(w) ==
    /\ writers[w].pc \in {"done", "crashed"}
    /\ writers' = [writers EXCEPT ![w] = IdleWriter]
    /\ UNCHANGED <<parent_exists, fs_names, fs_data>>
    /\ UNCHANGED <<coreVars, cteVars, relVars, httpVars, jitVars, zVars>>

----------------------------------------------------------------------------
(* SSRF-safe HTTP client: src/providers/http_client.rs *)

\* lines 13-18, as bytes: "localhost", "metadata.google.internal",
\* "metadata.aws.internal", "instance-data"
BLOCKED_HOSTS ==
    << <<108, 111, 99, 97, 108, 104, 111, 115, 116>>,
       <<109, 101, 116, 97, 100, 97, 116, 97, 46, 103, 111, 111, 103, 108, 101,
         46, 105, 110, 116, 101, 114, 110, 97, 108>>,
       <<109, 101, 116, 97, 100, 97, 116, 97, 46, 97, 119, 115, 46, 105, 110,
         116, 101, 114, 110, 97, 108>>,
       <<105, 110, 115, 116, 97, 110, 99, 101, 45, 100, 97, 116, 97>> >>

\* str::to_lowercase, starts_with and ends_with on ASCII text
to_lowercase(s) == [i \in 1..Len(s) |-> IF s[i] \in 65..90 THEN s[i] + 32 ELSE s[i]]
starts_with(s, pre) == Len(s) >= Len(pre) /\ SubSeq(s, 1, Len(pre)) = pre
ends_with(s, suf) ==
    Len(s) >= Len(suf) /\ SubSeq(s, Len(s) - Len(suf) + 1, Len(s)) = suf

\* the pieces of s between the separators
RECURSIVE Split(_, _)
Split(s, sep) ==
    IF \E i \in 1..Len(s) : s[i] = sep
    THEN LET k == CHOOSE i \in 1..Len(s) :
                    s[i] = sep /\ \A j \in 1..(i - 1) : s[j] # sep
         IN  <<SubSeq(s, 1, k - 1)>> \o Split(SubSeq(s, k + 1, Len(s)), sep)
    ELSE <<s>>

\* the value of the digits of part in the base, if each is below the base
DigitValue(b) ==
    IF b \in 48..57 THEN b - 48
    ELSE IF b \in 97..102 THEN b - 87
    ELSE IF b \in 65..70 THEN b - 55 ELSE 16
RECURSIVE NumberIn(_, _)
NumberIn(part, base) ==
    IF part = <<>> THEN 0
    ELSE NumberIn(SubSeq(part, 1, Len(part) - 1), base) * base
            + DigitValue(part[Len(part)])
IsNumberIn(part, base, maxlen) ==
    /\ Len(part) \in 1..maxlen
    /\ \A i \in 1..Len(part) : DigitValue(part[i]) < base

\* "a.b.c.d".parse::<Ipv4Addr>(): four decimal octets without leading zeros
ParseIpv4(text) ==
    LET parts == Split(text, 46)
        Octet(part) ==
            /\ IsNumberIn(part, 10, 3)
            /\ Len(part) > 1 => part[1] # 48
            /\ NumberIn(part, 10) <= 255
    IN  IF Len(parts) = 4 /\ \A k \in 1..4 : Octet(parts[k])
        THEN Some(<<"V4", [k \in 1..4 |-> NumberIn(parts[k], 10)]>>)
        ELSE None

\* text.parse::<Ipv6Addr>(): eight groups of one to four hex digits, one run
\* of zero groups written "::" (the form with a dotted IPv4 tail is left out)
ParseIpv6(text) ==
    LET Groups(t) == IF t = <<>> THEN <<>> ELSE Split(t, 58)
        Valid(gs) == \A k \in 1..Len(gs) : IsNumberIn(gs[k], 16, 4)
        Values(gs) == [k \in 1..Len(gs) |-> NumberIn(gs[k], 16)]
        gaps == {i \in 1..(Len(text) - 1) : text[i] = 58 /\ text[i + 1] = 58}
    IN  IF gaps = {}
        THEN IF Len(Groups(text)) = 8 /\ Valid(Groups(text))
             THEN Some(<<"V6", Values(Groups(text))>>) ELSE None
        ELSE LET k == CHOOSE i \in gaps : \A j \in gaps : i <= j
                 l == Groups(SubSeq(text, 1, k - 1))
                 r == Groups(SubSeq(text, k + 2, Len(text)))
             IN  IF Valid(l) /\ Valid(r) /\ Len(l) + Len(r) <= 7
                 THEN Some(<<"V6", Values(l)
                                \o [j \in 1..(8 - Len(l) - Len(r)) |-> 0]
                                \o Values(r)>>)
                 ELSE None

\* host.parse::<IpAddr>()
ParseIpAddr(text) ==
    IF ParseIpv4(text) # None THEN ParseIpv4(text) ELSE ParseIpv6(text)

\* only the loopback addresses count as private
IsPrivateIpLoopbackOnly(ip) ==
    IF ip[1] = "V4" THEN ip[2][1] = 127 ELSE ip[2] = <<0, 0, 0, 0, 0, 0, 0, 1>>
\* lines 21-45
is_private_ip(ip) ==
    LET o == ip[2]
    IN  IF ip[1] = "V4"
        THEN \/ o[1] = 127
             \/ o[1] = 10
             \/ o[1] = 172 /\ o[2] \in 16..31
             \/ o[1] = 192 /\ o[2] = 168
             \/ o[1] = 169 /\ o[2] = 254
             \/ o = <<255, 255, 255, 255>>
             \/ o = <<0, 0, 0, 0>>
             \/ o[1] = 100 /\ o[2] >= 64 /\ o[2] <= 127
        ELSE \/ o = <<0, 0, 0, 0, 0, 0, 0, 1>>
             \/ o = <<0, 0, 0, 0, 0, 0, 0, 0>>
             \* (segments[0] & 0xfe00) == 0xfc00
             \/ o[1] \div 512 = 126
             \* (segments[0] & 0xffc0) == 0xfe80
             \/ o[1] \div 64 = 1018

\* lines 55-59 and 100-104: the host is a blocked name or below one
BlockedHost(host) ==
    \E k \in 1..Len(BLOCKED_HOSTS) :
        \/ to_lowercase(host) = BLOCKED_HOSTS[k]
        \/ ends_with(to_lowercase(host), <<46>> \o BLOCKED_HOSTS[k])

\* lines 62-75 and 107-120: the host, or the host without its brackets, is
\* an address that is_private_ip holds private; the address, if so
PrivateIpOf(host) ==
    LET ip == ParseIpAddr(host)
        inner == IF starts_with(host, <<91>>) /\ ends_with(host, <<93>>)
                 THEN ParseIpAddr(SubSeq(host, 2, Len(host) - 1)) ELSE None
    IN  IF ip # None /\ is_private_ip(ip[1]) THEN ip
        ELSE IF inner # None /\ is_private_ip(inner[1]) THEN inner
        ELSE None

\* URL strings with what Url::parse makes of them: whether it succeeds and
\* the bytes of host_str(), if there is a host
UrlInputs ==
    { [str |-> "not a url", parsed |-> FALSE, host |-> None],
      [str |-> "http://localhost/path", parsed |-> TRUE,
       host |-> Some(<<108, 111, 99, 97, 108, 104, 111, 115, 116>>)],
      [str |-> "custom://LocalHost/x", parsed |-> TRUE,
       host |-> Some(<<76, 111, 99, 97, 108, 72, 111, 115, 116>>)],
      [str |-> "http://api.localhost/", parsed |-> TRUE,
       host |-> Some(<<97, 112, 105, 46, 108, 111, 99, 97, 108, 104, 111, 115, 116>>)],
      [str |-> "http://metadata.google.internal/computeMetadata", parsed |-> TRUE,
       host |-> Some(<<109, 101, 116, 97, 100, 97, 116, 97, 46, 103, 111, 111, 103, 108, 101, 46, 105, 110, 116, 101, 114, 110, 97, 108>>)],
      [str |-> "http://metadata.aws.internal/", parsed |-> TRUE,
       host |-> Some(<<109, 101, 116, 97, 100, 97, 116, 97, 46, 97, 119, 115, 46, 105, 110, 116, 101, 114, 110, 97, 108>>)],
      [str |-> "http://instance-data/latest", parsed |-> TRUE,
       host |-> Some(<<105, 110, 115, 116, 97, 110, 99, 101, 45, 100, 97, 116, 97>>)],
      [str |-> "http://169.254.169.254/latest/meta-data", parsed |-> TRUE,
       host |-> Some(<<49, 54, 57, 46, 50, 53, 52, 46, 49, 54, 57, 46, 50, 53, 52>>)],
      [str |-> "http://10.0.0.1/api", parsed |-> TRUE,
       host |-> Some(<<49, 48, 46, 48, 46, 48, 46, 49>>)],
      [str |-> "http://172.16.0.1/api", parsed |-> TRUE,
       host |-> Some(<<49, 55, 50, 46, 49, 54, 46, 48, 46, 49>>)],
      [str |-> "http://172.31.255.255/", parsed |-> TRUE,
       host |-> Some(<<49, 55, 50, 46, 51, 49, 46, 50, 53, 53, 46, 50, 53, 53>>)],
      [str |-> "http://192.168.1.1/api", parsed |-> TRUE,
       host |-> Some(<<49, 57, 50, 46, 49, 54, 56, 46, 49, 46, 49>>)],
      [str |-> "http://127.0.0.1/", parsed |-> TRUE,
       host |-> Some(<<49, 50, 55, 46, 48, 46, 48, 46, 49>>)],
      [str |-> "http://100.64.0.1/", parsed |-> TRUE,
       host |-> Some(<<49, 48, 48, 46, 54, 52, 46, 48, 46, 49>>)],
      [str |-> "http://0.0.0.0/", parsed |-> TRUE,
       host |-> Some(<<48, 46, 48, 46, 48, 46, 48>>)],
      [str |-> "http://255.255.255.255/", parsed |-> TRUE,
       host |-> Some(<<50, 53, 53, 46, 50, 53, 53, 46, 50, 53, 53, 46, 50, 53, 53>>)],
      [str |-> "http://[::1]/", parsed |-> TRUE,
       host |-> Some(<<91, 58, 58, 49, 93>>)],
      [str |-> "http://[::]/", parsed |-> TRUE,
       host |-> Some(<<91, 58, 58, 93>>)],
      [str |-> "http://[fe80::1]/", parsed |-> TRUE,
       host |-> Some(<<91, 102, 101, 56, 48, 58, 58, 49, 93>>)],
      [str |-> "http://[fd00::1]/", parsed |-> TRUE,
       host |-> Some(<<91, 102, 100, 48, 48, 58, 58, 49, 93>>)],
      [str |-> "https://api.openai.com/v1/chat", parsed |-> TRUE,
       host |-> Some(<<97, 112, 105, 46, 111, 112, 101, 110, 97, 105, 46, 99, 111, 109>>)],
      [str |-> "https://mylocalhost/", parsed |-> TRUE,
       host |-> Some(<<109, 121, 108, 111, 99, 97, 108, 104, 111, 115, 116>>)],
      [str |-> "https://localhost.example.com/", parsed |-> TRUE,
       host |-> Some(<<108, 111, 99, 97, 108, 104, 111, 115, 116, 46, 101, 120, 97, 109, 112, 108, 101, 46, 99, 111, 109>>)],
      [str |-> "https://8.8.8.8/", parsed |-> TRUE,
       host |-> Some(<<56, 46, 56, 46, 56, 46, 56>>)],
      [str |-> "https://172.32.0.1/", parsed |-> TRUE,
       host |-> Some(<<49, 55, 50, 46, 51, 50, 46, 48, 46, 49>>)],
      [str |-> "https://100.128.0.1/", parsed |-> TRUE,
       host |-> Some(<<49, 48, 48, 46, 49, 50, 56, 46, 48, 46, 49>>)],
      [str |-> "https://[2607:f8b0:4004:800::200e]/", parsed |-> TRUE,
       host |-> Some(<<91, 50, 54, 48, 55, 58, 102, 56, 98, 48, 58, 52, 48, 48, 52, 58, 56, 48, 48, 58, 58, 50, 48, 48, 101, 93>>)],
      [str |-> "https://[fec0::1]/", parsed |-> TRUE,
       host |-> Some(<<91, 102, 101, 99, 48, 58, 58, 49, 93>>)],
      [str |-> "mailto:someone@example.com", parsed |-> TRUE, host |-> None] }

ParsedUrls == {u \in UrlInputs : u.parsed}

\* the check without the test of the bracketed form
ValidateSkipsBrackets(url) ==
    IF ~url.parsed THEN Err(<<"Invalid URL">>)
    ELSE LET host == IF url.host = None THEN <<>> ELSE url.host[1]
         IN  IF BlockedHost(host) THEN Err(<<"Blocked internal hostname", host>>)
             ELSE IF ParseIpAddr(host) # None /\ is_private_ip(ParseIpAddr(host)[1])
                  THEN Err(<<"Blocked private IP", ParseIpAddr(host)[1]>>)
             ELSE OkUnit
\* lines 48-78
validate_url_not_private(url) ==
    IF ~url.parsed THEN Err(<<"Invalid URL">>)
    ELSE LET host == IF url.host = None THEN <<>> ELSE url.host[1]
         IN  IF BlockedHost(host) THEN Err(<<"Blocked internal hostname", host>>)
             ELSE IF PrivateIpOf(host) # None
                  THEN Err(<<"Blocked private IP", PrivateIpOf(host)[1]>>)
             ELSE OkUnit

\* the policy lets a redirect to a bracketed address pass
RejectReasonSkipsBrackets(url) ==
    IF url.host = None THEN None
    ELSE LET host == url.host[1]
         IN  IF BlockedHost(host)
             THEN Some(<<"SSRF: redirect to blocked host", host>>)
             ELSE IF ParseIpAddr(host) # None /\ is_private_ip(ParseIpAddr(host)[1])
                  THEN Some(<<"SSRF: redirect to private IP", ParseIpAddr(host)[1]>>)
             ELSE None
\* lines 96-123: reject_reason of the redirect policy for the Url of a hop
reject_reason(url) ==
    IF url.host = None THEN None
    ELSE LET host == url.host[1]
         IN  IF BlockedHost(host)
             THEN Some(<<"SSRF: redirect to blocked host", host>>)
             ELSE IF PrivateIpOf(host) # None
                  THEN Some(<<"SSRF: redirect to private IP", PrivateIpOf(host)[1]>>)
             ELSE None

\* line 135
REDIRECT_CAP == 10

\* the policy follows while at most REDIRECT_CAP URLs were requested
RedirectPolicyOffByOne(url, previous) ==
    IF reject_reason(url) # None
    THEN <<"error", "PermissionDenied", reject_reason(url)[1]>>
    ELSE IF Len(previous) > REDIRECT_CAP THEN <<"stop">> ELSE <<"follow">>
\* the policy counts the hops before it looks at the target
RedirectPolicyCountsFirst(url, previous) ==
    IF Len(previous) >= REDIRECT_CAP THEN <<"stop">>
    ELSE IF reject_reason(url) # None
    THEN <<"error", "PermissionDenied", reject_reason(url)[1]>>
    ELSE <<"follow">>
\* lines 94-140: the custom redirect policy for a hop to url when the URLs
\* of previous have been requested in this chain
RedirectPolicy(url, previous) ==
    IF reject_reason(url) # None
    THEN <<"error", "PermissionDenied", reject_reason(url)[1]>>
    ELSE IF Len(previous) >= REDIRECT_CAP THEN <<"stop">> ELSE <<"follow">>

\* nothing is validated and no request is under way
IdleHttpVars ==
    /\ http_url = None
    /\ http_ret = None
    /\ chain = <<>>
    /\ chain_state = <<"idle">>
    /\ chain_loc = None

\* validate_url_not_private(url) is called before a request
HttpValidate(url) ==
    /\ chain_state = <<"idle">>
    /\ http_url' = Some(url)
    /\ http_ret' = Some(validate_url_not_private(url))
    /\ UNCHANGED <<chain, chain_state, chain_loc>>
    /\ UNCHANGED <<coreVars, cteVars, relVars, awVars, jitVars, zVars>>

\* a request is sent to the URL that passed the pre-request check
ChainStart(url) ==
    /\ chain_state = <<"idle">>
    /\ http_url = Some(url)
    /\ http_ret = Some(OkUnit)
    /\ chain' = <<url>>
    /\ chain_state' = <<"requesting">>
    /\ chain_loc' = None
    /\ UNCHANGED <<http_url, http_ret>>
    /\ UNCHANGED <<coreVars, cteVars, relVars, awVars, jitVars, zVars>>

\* the server answers 3xx with a Location that parses to loc: the client
\* asks the policy, with the URLs requested so far as previous, and follows
\* the hop, returns the policy's error or stops with the 3xx response
ChainRedirect(loc) ==
    /\ chain_state = <<"requesting">>
    /\ chain_loc' = Some(loc)
    /\ LET action == RedirectPolicy(loc, chain)
       IN  IF action[1] = "follow"
           THEN chain' = Append(chain, loc) /\ UNCHANGED chain_state
           ELSE chain_state' = action /\ UNCHANGED chain
    /\ UNCHANGED <<http_url, http_ret>>
    /\ UNCHANGED <<coreVars, cteVars, relVars, awVars, jitVars, zVars>>

\* the server answers with something else than a redirect
ChainRespond ==
    /\ chain_state = <<"requesting">>
    /\ chain_state' = <<"response">>
    /\ UNCHANGED <<http_url, http_ret, chain, chain_loc>>
    /\ UNCHANGED <<coreVars, cteVars, relVars, awVars, jitVars, zVars>>

\* the caller has the outcome of the request
ChainEnd ==
    /\ chain_state \notin {<<"idle">>, <<"requesting">>}
    /\ chain' = <<>>
    /\ chain_state' = <<"idle">>
    /\ chain_loc' = None
    /\ UNCHANGED <<http_url, http_ret>>
    /\ UNCHANGED <<coreVars, cteVars, relVars, awVars, jitVars, zVars>>

----------------------------------------------------------------------------
(* Jitter: src/providers/reliable.rs apply_jitter, src/daemon/mod.rs *)

\* the largest base that apply_jitter is called with here
MaxJitBase == 40

\* a factor spread over [0.75, 1.75]
ApplyJitterFullSpread(base_ms, raw) ==
    Max((base_ms * (3 * RawMax + 4 * raw)) \div (4 * RawMax), 1)

\* reliable.rs lines 125-142: factor = 0.75 + raw/u32::MAX * 0.5 and
\* result = (base_ms * factor) as u64, at least 1; u32::MAX is scaled to
\* RawMax and the product is computed exactly
apply_jitter(base_ms, raw) ==
    Max((base_ms * (3 * RawMax + 2 * raw)) \div (4 * RawMax), 1)

IdleJitVars ==
    /\ jit_site = "none"
    /\ jit_base = 0
    /\ jit_raw = 0
    /\ jit_ret = None

\* the reliable caller jitters a backoff of base_ms milliseconds
JitApply(base_ms, raw) ==
    /\ jit_site' = "reliable"
    /\ jit_base' = base_ms
    /\ jit_raw' = raw
    /\ jit_ret' = Some(apply_jitter(base_ms, raw))
    /\ UNCHANGED <<coreVars, olderLibVars, zVars>>

\* the supervisor jitters a backoff of b seconds (daemon/mod.rs lines
\* 201-216)
JitSupervisor(b, raw) ==
    /\ jit_site' = "daemon"
    /\ jit_base' = b
    /\ jit_raw' = raw
    /\ jit_ret' = Some(SleepSecs(b, raw))
    /\ UNCHANGED <<coreVars, olderLibVars, zVars>>

----------------------------------------------------------------------------
(* Compression of memory entries: src/memory/compression.rs *)

COMPRESSION_THRESHOLD == 1024
\* "lz4:"
LZ4_PREFIX == <<108, 122, 52, 58>>

\* the longest short content tried, without the prefix
MaxZLen == 3
\* '+', '0' and 'h'
ZBytes == {43, 48, 104}
RECURSIVE ZStringsUpTo(_)
ZStringsUpTo(n) ==
    IF n = 0 THEN {<<>>}
    ELSE LET shorter == ZStringsUpTo(n - 1)
         IN  shorter \cup {Append(x, c) : x \in shorter, c \in ZBytes}
\* n times the letter 'a'
Repeated(n) == [i \in 1..n |-> 97]
\* contents at, just above and well above the threshold
LongContents ==
    {Repeated(n) : n \in {COMPRESSION_THRESHOLD, COMPRESSION_THRESHOLD + 1,
                           COMPRESSION_THRESHOLD + 300}}
\* the contents stored: short and long ones, each also behind "lz4:"
ZContents ==
    LET plain == ZStringsUpTo(MaxZLen) \cup LongContents
    IN  plain \cup {LZ4_PREFIX \o c : c \in plain}

\* lines 40-47: two lower-case hex digits per byte
hex_encode(data) ==
    [i \in 1..(2 * Len(data)) |->
        IF i % 2 = 1 THEN HexDigit(data[(i + 1) \div 2] \div 16)
        ELSE HexDigit(data[i \div 2] % 16)]

\* u8::from_str_radix(pair, 16) of two bytes: two hex digits of either
\* case, or a plus sign and one hex digit
FromStrRadix16(pair) ==
    IF pair[1] = 43
    THEN IF DigitValue(pair[2]) < 16 THEN Some(DigitValue(pair[2])) ELSE None
    ELSE IF DigitValue(pair[1]) < 16 /\ DigitValue(pair[2]) < 16
         THEN Some(16 * DigitValue(pair[1]) + DigitValue(pair[2]))
         ELSE None

\* lines 49-61
hex_decode(hex) ==
    IF Len(hex) % 2 # 0 THEN Err("Hex string has odd length")
    ELSE LET parsed == [i \in 1..(Len(hex) \div 2) |->
                            FromStrRadix16(SubSeq(hex, 2 * i - 1, 2 * i))]
         IN  IF \E i \in DOMAIN parsed : parsed[i] = None
             THEN Err("Invalid hex")
             ELSE <<"Ok", [i \in DOMAIN parsed |-> parsed[i][1]]>>

\* the token and length bytes of an LZ4 block that is one run of n literals
LiteralRunHeader(n) ==
    IF n < 15 THEN <<16 * n>>
    ELSE <<240>> \o [i \in 1..(((n - 15) \div 255) + 1) |->
                        IF i <= (n - 15) \div 255 THEN 255 ELSE (n - 15) % 255]

\* lz4_flex::compress_prepend_size: the length as four little-endian bytes
\* and a block that decodes to the data; the block here is a single run of
\* literals
compress_prepend_size(data) ==
    <<Len(data) % 256, (Len(data) \div 256) % 256, 0, 0>>
        \o LiteralRunHeader(Len(data)) \o data

\* lz4_flex::decompress_size_prepended: the data of a well-formed block of
\* the announced size, an error for anything else; blocks with matches are
\* not produced by the compressor above and are refused here
decompress_size_prepended(bytes) ==
    IF Len(bytes) < 5 \/ bytes[3] # 0 \/ bytes[4] # 0
    THEN Err("LZ4 decompression failed")
    ELSE LET size == bytes[1] + 256 * bytes[2]
             hdr  == LiteralRunHeader(size)
         IN  IF /\ Len(bytes) = 4 + Len(hdr) + size
                /\ SubSeq(bytes, 5, 4 + Len(hdr)) = hdr
             THEN <<"Ok", SubSeq(bytes, 5 + Len(hdr), Len(bytes))>>
             ELSE Err("LZ4 decompression failed")

\* String::from_utf8 on the bytes met here: ASCII is valid, a byte above
\* 127 is taken as invalid
from_utf8(bytes) ==
    IF \A i \in DOMAIN bytes : bytes[i] < 128
    THEN <<"Ok", bytes>>
    ELSE Err("Decompressed data is not valid UTF-8")

\* lines 11-19: (stored_content, is_compressed)
maybe_compress(content) ==
    IF Len(content) <= COMPRESSION_THRESHOLD THEN <<content, FALSE>>
    ELSE <<LZ4_PREFIX \o hex_encode(compress_prepend_size(content)), TRUE>>

\* lines 22-33
maybe_decompress(stored) ==
    IF starts_with(stored, LZ4_PREFIX)
    THEN LET compressed == hex_decode(SubSeq(stored, 5, Len(stored)))
         IN  IF compressed[1] = "Err" THEN compressed
             ELSE LET decompressed == decompress_size_prepended(compressed[2])
                  IN  IF decompressed[1] = "Err" THEN decompressed
                      ELSE from_utf8(decompressed[2])
    ELSE <<"Ok", stored>>

IdleZVars ==
    /\ z_content = None
    /\ z_stored = None
    /\ z_ret = None

\* a content is compressed for storing
ZCompress(content) ==
    /\ z_content' = Some(content)
    /\ z_stored' = Some(maybe_compress(content))
    /\ z_ret' = None
    /\ UNCHANGED <<coreVars, olderLibVars, jitVars>>

\* the stored form is read back
ZDecompress ==
    /\ z_stored # None /\ z_ret = None
    /\ z_ret' = Some(maybe_decompress(z_stored[1][1]))
    /\ UNCHANGED <<z_content, z_stored>>
    /\ UNCHANGED <<coreVars, olderLibVars, jitVars>>

IdleLibVars ==
    IdleCteVars /\ IdleRelVars /\ IdleAwVars /\ IdleHttpVars /\ IdleJitVars /\ IdleZVars

----------------------------------------------------------------------------
(* Specifications *)

InitHealthVars ==
    /\ components = <<>>
    /\ clock = 0
    /\ snap = None

\* the daemon orchestrator
Init ==
    InitHealthVars /\ IdleSupVars /\ InitRunVars /\ InitSwVars /\ IdlePairVars /\ IdleLibVars

Next ==
    \E i \in Instances :
        \/ RunCreate(i)
        \/ RunTryLock(i)
        \/ RunMarkOk(i)
        \/ RunSpawn(i)
        \/ RunCtrlC(i)
        \/ RunMarkShutdown(i)
        \/ RunAbortJoin(i)
        \/ RunReturn(i)

Spec == Init /\ [][Next]_vars

\* the daemon orchestrator with its state writer, no optional component
\* configured
RunCreatePlain(i) ==
    /\ RunCreate(i)
    /\ cfg'[i] = [heartbeat |-> FALSE, channels |-> FALSE]

NextDaemon ==
    \/ \E i \in Instances :
          \/ RunCreatePlain(i)
          \/ RunTryLock(i)
          \/ RunMarkOk(i)
          \/ RunSpawn(i)
          \/ RunCtrlC(i)
          \/ RunMarkShutdown(i)
          \/ RunAbortJoin(i)
          \/ RunReturn(i)
    \/ \E i \in Instances : SwElapse(i)
    \/ \E i \in Instances : SwTick(i)
    \/ \E i \in Instances, o \in WriteOutcomes : SwWriteDone(i, o)

SpecDaemon == Init /\ [][NextDaemon]_vars

\* the timer fires and the runtime polls the state writer when its tick is due
SpecDaemonFair ==
    /\ SpecDaemon
    /\ \A i \in Instances : WF_vars(SwElapse(i)) /\ WF_vars(SwTick(i))

\* one supervised component
InitSup ==
    InitHealthVars /\ InitSupVars /\ InitRunVars /\ InitSwVars /\ IdlePairVars /\ IdleLibVars

NextSup ==
    \/ SupMarkOk
    \/ SupInvoke
    \/ \E o \in Outcomes : FactoryExit(o)
    \/ SupMarkError
    \/ SupBump
    \/ SupWake
    \/ SupAbort

SpecSup == InitSup /\ [][NextSup]_vars

\* the health registry under arbitrary callers
InitHealth ==
    InitHealthVars /\ IdleSupVars /\ InitRunVars /\ InitSwVars /\ IdlePairVars /\ IdleLibVars

NextHealth ==
    \/ \E n \in Names : HealthMarkOk(n)
    \/ \E n \in Names, e \in ErrTexts : HealthMarkError(n, e)
    \/ \E n \in Names : HealthBumpRestart(n)
    \/ HealthSnapshot

SpecHealth == InitHealth /\ [][NextHealth]_vars

\* the pairing guard, one try_pair call at a time
InitPair ==
    InitHealthVars /\ IdleSupVars /\ InitRunVars /\ InitSwVars /\ InitPairVars /\ IdleLibVars

\* a call that begins when no other call is in progress
PairCall(t, code) ==
    /\ \A u \in Callers : pair_pc[u] = "idle"
    /\ PairCheck(t, code)

NextPair ==
    \/ \E t \in Callers, code \in CodeInputs : PairCall(t, code)
    \/ \E t \in Callers : PairReset(t)
    \/ \E t \in Callers : PairInsert(t)
    \/ \E t \in Callers : PairIncrement(t)
    \/ \E t \in Callers, token \in TokenInputs : PairIsAuthenticated(t, token)
    \/ PairTick

SpecPair == InitPair /\ [][NextPair]_vars

\* the guard under calls of try_pair that overlap, with the clock at rest:
\* every caller takes its steps whenever it likes
NextPairConc ==
    \/ \E t \in Callers, code \in CodeInputs : PairCheck(t, code)
    \/ \E t \in Callers : PairReset(t)
    \/ \E t \in Callers : PairInsert(t)
    \/ \E t \in Callers : PairIncrement(t)

SpecPairConc == InitPair /\ [][NextPairConc]_vars

\* constant_time_eq under arbitrary arguments
InitCte ==
    /\ InitHealthVars /\ IdleSupVars /\ InitRunVars /\ InitSwVars /\ IdlePairVars
    /\ InitCteVars /\ IdleRelVars /\ IdleAwVars /\ IdleHttpVars
    /\ IdleJitVars /\ IdleZVars

NextCte ==
    \/ CteCall
    \/ \E a \in CteInputs, b \in CteInputs : CteNext(a, b)

SpecCte == InitCte /\ [][NextCte]_vars

\* the reliable caller, one chat_with_system call at a time
InitRel ==
    /\ InitHealthVars /\ IdleSupVars /\ InitRunVars /\ InitSwVars /\ IdlePairVars
    /\ IdleCteVars /\ InitRelVars /\ IdleAwVars /\ IdleHttpVars
    /\ IdleJitVars /\ IdleZVars

\* a call that begins when no other call is in progress
RelCallAlone(t, req) ==
    /\ \A u \in Tasks : calls[u].pc = "idle"
    /\ RelCall(t, req)

NextRel ==
    \/ \E t \in Tasks, req \in Requests : RelCallAlone(t, req)
    \/ \E t \in Tasks : RelEvict(t)
    \/ \E t \in Tasks : RelInvoke(t)
    \/ \E t \in Tasks : \E o \in ProviderOutcomes(calls[t].provider) : RelComplete(t, o)
    \/ \E t \in Tasks : RelWake(t)
    \/ \E t \in Tasks : RelReturn(t)
    \/ RelTick

SpecRel == InitRel /\ [][NextRel]_vars

\* the reliable caller under two overlapping calls of any of its tasks, with
\* at most one retry per provider and the smallest backoff
InitRelConc ==
    /\ InitRel
    /\ max_retries <= 1
    /\ base_backoff_ms = BACKOFF_FLOOR_MS

\* a call that begins while at most one other call is in progress
RelCallOverlapping(t, req) ==
    /\ Cardinality({u \in Tasks : calls[u].pc # "idle"}) <= 1
    /\ RelCall(t, req)

NextRelConc ==
    \/ \E t \in Tasks, req \in Requests : RelCallOverlapping(t, req)
    \/ \E t \in Tasks : RelEvict(t)
    \/ \E t \in Tasks : RelInvoke(t)
    \/ \E t \in Tasks : \E o \in ProviderOutcomes(calls[t].provider) : RelComplete(t, o)
    \/ \E t \in Tasks : RelWake(t)
    \/ \E t \in Tasks : RelReturn(t)
    \/ RelTick

SpecRelConc == InitRelConc /\ [][NextRelConc]_vars

\* overlapping calls for one message with any system prompt and temperature,
\* with no retry and the smallest backoff
InitRelCache ==
    /\ InitRel
    /\ max_retries = 0
    /\ base_backoff_ms = BACKOFF_FLOOR_MS

NextRelCache ==
    \/ \E t \in Tasks, req \in PromptedRequests : RelCallOverlapping(t, req)
    \/ \E t \in Tasks : RelEvict(t)
    \/ \E t \in Tasks : RelInvoke(t)
    \/ \E t \in Tasks : \E o \in ProviderOutcomes(calls[t].provider) : RelComplete(t, o)
    \/ \E t \in Tasks : RelReturn(t)
    \/ RelTick

SpecRelCache == InitRelCache /\ [][NextRelCache]_vars

\* the atomic writer, one atomic_write call at a time
InitAw ==
    /\ InitHealthVars /\ IdleSupVars /\ InitRunVars /\ InitSwVars /\ IdlePairVars
    /\ IdleCteVars /\ IdleRelVars /\ InitAwVars /\ IdleHttpVars
    /\ IdleJitVars /\ IdleZVars

\* a call that begins when no other call is in progress
AwCallAlone(w, path, data) ==
    /\ \A u \in Writers : writers[u].pc = "idle"
    /\ AwCall(w, path, data)

NextAw ==
    \/ \E w \in Writers, path \in Paths, data \in DataInputs : AwCallAlone(w, path, data)
    \/ \E w \in Writers, ok \in BOOLEAN : AwCreate(w, ok)
    \/ \E w \in Writers, n \in 0..MaxDataLen, ok \in BOOLEAN : AwWrite(w, n, ok)
    \/ \E w \in Writers, ok \in BOOLEAN : AwSync(w, ok)
    \/ \E w \in Writers, ok \in BOOLEAN : AwRename(w, ok)
    \/ \E w \in Writers, ok \in BOOLEAN : AwCleanup(w, ok)
    \/ \E w \in Writers : AwCrash(w)
    \/ \E w \in Writers : AwReturn(w)

SpecAw == InitAw /\ [][NextAw]_vars

\* the file that concurrent callers write, one whose temp path is another
\* name
SharedTarget == <<"state", "json">>
\* calls of atomic_write on one target that overlap in any way
AwCallShared(w, data) == AwCall(w, SharedTarget, data)

\* the file system is free of faults: a step fails only when it cannot
\* succeed (no directory for the create, no temp file for the rename and
\* the cleanup)
TmpThere == fs_names[TmpPath(SharedTarget)] # 0

NextAwConc ==
    \/ \E w \in Writers, data \in DataInputs : AwCallShared(w, data)
    \/ \E w \in Writers : AwCreate(w, parent_exists)
    \/ \E w \in Writers, n \in 0..MaxDataLen : AwWrite(w, n, TRUE)
    \/ \E w \in Writers : AwSync(w, TRUE)
    \/ \E w \in Writers : AwRename(w, TmpThere)
    \/ \E w \in Writers : AwCleanup(w, TmpThere)
    \/ \E w \in Writers : AwReturn(w)

SpecAwConc == InitAw /\ [][NextAwConc]_vars

\* the URL check and the redirect chains of the SSRF-safe client: the first
\* hop of a chain goes anywhere, the later ones to a few targets
InitHttp ==
    /\ InitHealthVars /\ IdleSupVars /\ InitRunVars /\ InitSwVars /\ IdlePairVars
    /\ IdleLibVars

HopTargets ==
    {u \in ParsedUrls : u.str \in {"https://api.openai.com/v1/chat",
                                   "https://8.8.8.8/",
                                   "http://api.localhost/",
                                   "http://[::1]/"}}

NextHttp ==
    \/ \E url \in UrlInputs : HttpValidate(url)
    \/ \E url \in HopTargets : ChainStart(url)
    \/ \E loc \in ParsedUrls : Len(chain) = 1 /\ ChainRedirect(loc)
    \/ \E loc \in HopTargets : Len(chain) > 1 /\ ChainRedirect(loc)
    \/ ChainRespond
    \/ ChainEnd

SpecHttp == InitHttp /\ [][NextHttp]_vars

\* contents stored and read back
InitZ ==
    /\ InitHealthVars /\ IdleSupVars /\ InitRunVars /\ InitSwVars /\ IdlePairVars
    /\ IdleLibVars

NextZ ==
    \/ \E content \in ZContents : ZCompress(content)
    \/ ZDecompress

SpecZ == InitZ /\ [][NextZ]_vars

\* the jitter of both backoffs, for every draw
InitJit ==
    /\ InitHealthVars /\ IdleSupVars /\ InitRunVars /\ InitSwVars /\ IdlePairVars
    /\ IdleLibVars

NextJit ==
    \/ \E base_ms \in 0..MaxJitBase, raw \in 0..RawMax : JitApply(base_ms, raw)
    \/ \E b \in 1..MaxU, raw \in 0..RawMax : JitSupervisor(b, raw)

SpecJit == InitJit /\ [][NextJit]_vars

\* the runtime polls a runnable task and a sleep completes; a factory may run
\* for ever and nobody need abort
SpecSupFair ==
    /\ SpecSup
    /\ WF_vars(SupMarkOk) /\ WF_vars(SupInvoke) /\ WF_vars(SupMarkError)
    /\ WF_vars(SupBump) /\ WF_vars(SupWake)

----------------------------------------------------------------------------
(* Claims *)

\* the health entry of the supervised component, as snapshot() would show it
SupEntry == EntryOf(components, SupName, clock)

\* C1: at any time at most one handle holds the exclusive lock on daemon.lock;
\* a non-blocking attempt fails (with nothing acquired) exactly while another
\* handle holds the lock, and succeeds once no other handle holds it.
AtMostOneHolder == Cardinality({i \in Instances : locked[i]}) <= 1
TryLockOutcome ==
    \A i \in Instances :
        (run_pc[i] = "try_lock" /\ run_pc'[i] # "try_lock") =>
            /\ locked'[i] <=> (\A j \in Instances \ {i} : ~locked[j])
            /\ \A j \in Instances \ {i} : locked'[j] = locked[j]
C1_ExclusiveLock == []AtMostOneHolder /\ [][TryLockOutcome]_vars
\* one instance ran and returned, one was refused, one holds the lock now
C1_Witness ==
    \E a, b, c \in Instances :
        /\ result[a] = Some(OkResult)
        /\ result[b] = Some(LockHeldError)
        /\ locked[c] /\ run_pc[c] = "ctrl_c"


\* C2: a run() that cannot acquire the lock returns the structured error
\* "Failed to start daemon" whose cause names the lock holder, and does nothing
\* else: no mark_ok("daemon"), no state writer, no supervisor, no lock.
Contains(pieces, text) == \E k \in DOMAIN pieces : pieces[k] = text
RefusedReturns ==
    \A i \in Instances :
        (run_pc[i] = "try_lock" /\ run_pc'[i] # "try_lock"
            /\ ~LockGranted(locked, i)) =>
            /\ run_pc'[i] = "returned"
            /\ result'[i] # None
            /\ Head(result'[i][1]) = "Failed to start daemon"
            /\ Contains(result'[i][1], "another instance holds the lock (")
            /\ health'[i] = health[i] /\ tasks'[i] = tasks[i]
            /\ locked' = locked
RefusedHasNoEffect ==
    \A i \in Instances :
        result[i] = Some(LockHeldError) =>
            /\ run_pc[i] = "returned"
            /\ "daemon" \notin DOMAIN health[i]
            /\ health[i] = <<>>
            /\ tasks[i] = {}
            /\ ~locked[i]
C2_LockFailureHasNoEffect == []RefusedHasNoEffect /\ [][RefusedReturns]_vars
\* an instance was refused while another one, started and marked ok, held the lock
C2_Witness ==
    \E i, j \in Instances :
        /\ result[i] = Some(LockHeldError)
        /\ locked[j] /\ "daemon" \in DOMAIN health[j] /\ tasks[j] # {}

\* C3: the supervisor loop never ends on its own: after every factory exit,
\* whatever the outcomes so far, the factory is invoked again unless the task
\* is aborted.
C3_SupervisorNeverTerminates ==
    /\ [](sup_pc \in {"spawned", "loop", "invoke", "awaiting", "exited", "bump",
                      "sleep", "aborted"})
    /\ [](sup_pc = "exited" => <>(sup_pc = "awaiting" \/ sup_pc = "aborted"))
\* the factory runs again after an Ok(()) exit that followed an earlier exit
C3_Witness ==
    /\ sup_pc = "awaiting"
    /\ outcome = Some(OkUnit)
    /\ SupEntry.restart_count >= 2

\* C4: after a factory exit the component is in status error with last_error
\* the error text (Err(e)) or "component exited unexpectedly" (Ok(())), and
\* restart_count, raised by one (saturating at u64::MAX), is at least 1.
ExitRecorded ==
    /\ sup_pc \in {"bump", "sleep"} =>
          /\ SupName \in DOMAIN components
          /\ SupEntry.status = "error"
          /\ outcome[1] = OkUnit =>
                SupEntry.last_error = Some("component exited unexpectedly")
          /\ outcome[1] # OkUnit =>
                SupEntry.last_error = Some(outcome[1][2])
    /\ sup_pc = "sleep" => SupEntry.restart_count >= 1
ExitCounted ==
    (sup_pc = "exited" /\ sup_pc' = "bump") \/ (sup_pc = "bump" /\ sup_pc' = "sleep")
        => LET before == SupEntry.restart_count
               after  == EntryOf(components', SupName, clock').restart_count
           IN  IF sup_pc = "bump"
               THEN after = (IF before < MaxU THEN before + 1 ELSE MaxU)
               ELSE after = before
C4_ExitMarksErrorAndCounts == []ExitRecorded /\ [][ExitCounted]_vars
\* the backoff sleep after the second exit, an Ok(())
C4_Witness ==
    /\ sup_pc = "sleep"
    /\ outcome = Some(OkUnit)
    /\ SupEntry.restart_count = 2
    /\ SupEntry.last_error = Some(UnexpectedExit)

\* C5: at most one factory future of the component is in flight; a new one is
\* made only when the previous one has completed and no backoff sleep is pending.
C5_SerialRestarts ==
    /\ inflight <= 1
    /\ inflight = 1 <=> sup_pc = "awaiting"
    /\ sup_pc = "sleep" => sleep_secs >= 1
    /\ sup_pc \in {"spawned", "loop", "invoke", "awaiting", "exited", "bump"} =>
          sleep_secs = 0
\* the third future of the component is in flight, alone
C5_Witness ==
    /\ sup_pc = "awaiting" /\ inflight = 1
    /\ SupEntry.restart_count >= 2

\* C6: backoff starts at max(initial, 1), the cap is max(max_cfg, that), each
\* restart makes it min(backoff*2, cap) with saturating multiplication; so
\* initial <= backoff <= cap, it never decreases, and after k restarts it is
\* min(initial * 2^k, cap), which is the cap from some k on.
RECURSIVE Pow2(_)
Pow2(k) == IF k = 0 THEN 1 ELSE 2 * Pow2(k - 1)
\* completed backoff sleeps, while the counter has not saturated
Wakes == IF sup_pc = "sleep" THEN SupEntry.restart_count - 1
         ELSE SupEntry.restart_count
BackoffInRange ==
    sup_pc # "none" =>
        /\ max_backoff = Max(max_backoff_secs, Max(initial_backoff_secs, 1))
        /\ Max(initial_backoff_secs, 1) <= backoff
        /\ backoff <= max_backoff
        /\ sup_pc \in {"spawned"} => backoff = Max(initial_backoff_secs, 1)
        /\ (sup_pc # "aborted" /\ SupEntry.restart_count < MaxU) =>
              backoff = Min(Max(initial_backoff_secs, 1) * Pow2(Wakes), max_backoff)
        /\ (sup_pc # "aborted" /\ SupEntry.restart_count = MaxU) =>
              backoff = max_backoff
BackoffStep ==
    /\ backoff' >= backoff
    /\ backoff' # backoff => backoff' = Min(2 * backoff, max_backoff)
    /\ (sup_pc = "sleep" /\ sup_pc' = "loop") =>
          backoff' = Min(2 * backoff, max_backoff)
    /\ max_backoff' = max_backoff
C6_BackoffBounds == []BackoffInRange /\ [][BackoffStep]_vars
\* the backoff has doubled twice and then hit a cap that is no power of two
C6_Witness ==
    /\ sup_pc = "loop"
    /\ initial_backoff_secs = 0
    /\ backoff = max_backoff /\ max_backoff > 4
    /\ SupEntry.restart_count = 3

\* C7: restart_count of every component never decreases: bump_restart raises
\* it by exactly 1 (saturating at u64::MAX) and leaves the other components'
\* counts alone; mark_ok, mark_error and snapshot change no count.
RestartCount(map, n) == EntryOf(map, n, 0).restart_count
RestartCountStep ==
    \A n \in Names :
        /\ RestartCount(components', n) >= RestartCount(components, n)
        /\ HealthBumpRestart(n) =>
              /\ RestartCount(components', n) =
                    (IF RestartCount(components, n) < MaxU
                     THEN RestartCount(components, n) + 1 ELSE MaxU)
              /\ \A m \in Names \ {n} :
                    RestartCount(components', m) = RestartCount(components, m)
        /\ (HealthMarkOk(n) \/ HealthSnapshot
               \/ \E e \in ErrTexts : HealthMarkError(n, e)) =>
              \A m \in Names :
                    RestartCount(components', m) = RestartCount(components, m)
C7_RestartCountMonotone == [][RestartCountStep]_vars
\* a component that restarted once is ok again, beside one whose count saturated
C7_Witness ==
    /\ DOMAIN components = Names
    /\ components["gateway"].restart_count = 1
    /\ components["gateway"].status = "ok"
    /\ components["daemon"].restart_count = MaxU
    /\ components["daemon"].status = "error"
    /\ snap # None

\* C8 as stated: a component whose status is ok has last_ok equal to updated_at.
C8_LastOkEqualsUpdatedAt ==
    \A n \in DOMAIN components :
        components[n].status = "ok" =>
            components[n].last_ok = Some(components[n].updated_at)
\* C8 amended: a component whose status is ok has last_ok present and no
\* last_error; mark_ok stamps last_ok with a clock reading taken at or after
\* the one it stores in updated_at, so the two are equal right after mark_ok
\* iff the clock gave the same reading twice, and a later bump_restart moves
\* updated_at on and leaves last_ok.
OkHasLastOk ==
    \A n \in DOMAIN components :
        components[n].status = "ok" =>
            /\ components[n].last_ok # None
            /\ components[n].last_ok[1] <= clock
            /\ components[n].updated_at <= clock
            /\ components[n].last_error = None
LastOkStep ==
    \A n \in Names :
        /\ HealthMarkOk(n) =>
              /\ components'[n].status = "ok"
              /\ components'[n].last_ok = Some(clock')
              /\ components'[n].updated_at <= clock'
              /\ components'[n].updated_at >= clock
        /\ (HealthBumpRestart(n) /\ n \in DOMAIN components) =>
              /\ components'[n].last_ok = components[n].last_ok
              /\ components'[n].status = components[n].status
              /\ components'[n].updated_at = clock'
C8_OkHasLastOk == []OkHasLastOk /\ [][LastOkStep]_vars
\* an ok component whose last_ok is older than its updated_at (a bump_restart
\* came after mark_ok) beside one whose last_ok is newer (the clock advanced
\* between the two readings of mark_ok)
C8_Witness ==
    /\ DOMAIN components = Names
    /\ components["gateway"].status = "ok"
    /\ components["gateway"].last_ok[1] < components["gateway"].updated_at
    /\ components["daemon"].status = "ok"
    /\ components["daemon"].last_ok[1] > components["daemon"].updated_at

\* C9 as stated: a component whose status is error has a last_error that is
\* present and not empty.
C9_LastErrorNonEmpty ==
    \A n \in DOMAIN components :
        components[n].status = "error" =>
            /\ components[n].last_error # None
            /\ components[n].last_error[1] # ""
\* C9 amended: a component whose status is error has last_error present; it is
\* the text of the latest mark_error, stored as given, so it is non-empty
\* exactly when that text was.
ErrorHasLastError ==
    \A n \in DOMAIN components :
        components[n].status = "error" => components[n].last_error # None
LastErrorStep ==
    \A n \in Names, e \in ErrTexts :
        HealthMarkError(n, e) =>
            /\ components'[n].status = "error"
            /\ components'[n].last_error = Some(e)
C9_ErrorHasLastError == []ErrorHasLastError /\ [][LastErrorStep]_vars
\* an error entry with the empty text, set after the component had been ok
C9_Witness ==
    /\ "gateway" \in DOMAIN components
    /\ components["gateway"].status = "error"
    /\ components["gateway"].last_error = Some("")
    /\ components["gateway"].last_ok # None

\* C10: outside a lockout, try_pair with a code that equals the pairing code
\* after trimming takes the success path whatever the failed count; it clears
\* the failed attempts to (0, no instant), makes a token "bh_.." that was not
\* in paired_tokens, inserts it and returns it.
HasBhPrefix(token) == Len(token) > 3 /\ SubSeq(token, 1, 3) = <<98, 104, 95>>
TokenReturned ==
    \A t \in Callers :
        (pair_ret[t] # None /\ pair_ret[t][1] = "Ok" /\ pair_ret[t][2] # None) =>
            /\ HasBhPrefix(pair_ret[t][2][1])
            /\ pair_ret[t][2][1] \in paired_tokens
            /\ failed_attempts = <<0, None>>
            /\ pair_pc[t] = "idle"
CorrectCodeStep ==
    \A t \in Callers :
        /\ \A code \in CodeInputs :
              (/\ pairing_code # None
               /\ ~LockedOut(failed_attempts)
               /\ trim(code) = trim(pairing_code[1])
               /\ PairCall(t, code)) =>
                  pair_pc'[t] = "reset"
        /\ (pair_pc[t] = "reset" /\ pair_pc'[t] # "reset") =>
              /\ failed_attempts' = <<0, None>>
              /\ pair_pc'[t] = "insert"
        /\ (pair_pc[t] = "insert" /\ pair_pc'[t] # "insert") =>
              /\ pair_ret'[t] # None
              /\ pair_ret'[t][1] = "Ok" /\ pair_ret'[t][2] # None
              /\ pair_ret'[t][2][1] \notin paired_tokens
              /\ paired_tokens' = paired_tokens \cup {pair_ret'[t][2][1]}
              /\ failed_attempts' = failed_attempts
C10_CorrectCodePairs == []TokenReturned /\ [][CorrectCodeStep]_vars
\* try_pair has just returned the second token of the guard
C10_Witness ==
    \E t \in Callers :
        /\ pair_ret[t] = OkRet(Some(generate_token(2)))
        /\ paired_tokens = {generate_token(1), generate_token(2)}
        /\ failed_attempts = <<0, None>>

\* C11: with require_pairing, is_authenticated(t) is true exactly for the
\* tokens given at construction and the tokens try_pair has returned; without
\* it, for every input.  paired_tokens holds exactly those tokens and no step
\* of the guard takes one out, so a token that authenticates keeps doing so.
GivenTokens == paired_tokens \cap ExistingTokens
IssuedTokens == {generate_token(k) : k \in 1..uuid_next}
TokensAreGivenOrIssued == paired_tokens = GivenTokens \cup IssuedTokens
AuthStep ==
    /\ paired_tokens \subseteq paired_tokens'
    /\ GivenTokens' = GivenTokens
    /\ require_pairing' = require_pairing
    /\ \A t \in Callers : \A token \in TokenInputs :
          (pair_ret'[t] # None /\ PairIsAuthenticated(t, token)) =>
              pair_ret'[t] = AuthRet(\/ ~require_pairing
                                     \/ token \in GivenTokens \cup IssuedTokens)
C11_AuthenticatedIffPaired == []TokensAreGivenOrIssued /\ [][AuthStep]_vars
\* with pairing required, two issued tokens are held and is_authenticated has
\* just refused a stranger
C11_Witness ==
    /\ require_pairing
    /\ paired_tokens = {generate_token(1), generate_token(2)}
    /\ \E t \in Callers : pair_ret[t] = AuthRet(FALSE)

\* C12: from a fresh guard each of the first MAX_PAIR_ATTEMPTS calls with a
\* wrong code returns Ok(None) and the call after them returns Err(sec), sec
\* being PAIR_LOCKOUT_SECS minus the whole seconds since the lockout instant,
\* always in 1..PAIR_LOCKOUT_SECS (PAIR_LOCKOUT_SECS itself when the call is
\* made within the first second).
WrongCode(code) == pairing_code = None \/ trim(code) # trim(pairing_code[1])
ErrIsRemaining ==
    \A t \in Callers :
        (pair_ret[t] # None /\ pair_ret[t][1] = "Err") =>
            /\ failed_attempts[1] >= MAX_PAIR_ATTEMPTS
            /\ failed_attempts[2] # None
            /\ pair_ret[t][2] = PAIR_LOCKOUT_SECS - Elapsed(failed_attempts[2])
            /\ pair_ret[t][2] \in 1..PAIR_LOCKOUT_SECS
InstantIffLimit ==
    (failed_attempts[1] >= MAX_PAIR_ATTEMPTS) <=> (failed_attempts[2] # None)
WrongCodeStep ==
    \A t \in Callers :
        /\ \A code \in CodeInputs :
              (/\ \A u \in Callers : pair_pc[u] = "idle"
               /\ WrongCode(code)
               /\ PairCall(t, code)) =>
                  IF LockedOut(failed_attempts)
                  THEN /\ pair_ret'[t] =
                            ErrRet(PAIR_LOCKOUT_SECS - Elapsed(failed_attempts[2]))
                       /\ failed_attempts' = failed_attempts
                  ELSE pair_pc'[t] = "increment"
        /\ (pair_pc[t] = "increment" /\ pair_pc'[t] # "increment") =>
              /\ pair_ret'[t] = OkRet(None)
              /\ failed_attempts'[1] = failed_attempts[1] + 1
              /\ failed_attempts'[1] >= MAX_PAIR_ATTEMPTS =>
                    failed_attempts'[2] = Some(0)
              /\ paired_tokens' = paired_tokens
C12_LockoutAfterFiveWrong ==
    [](ErrIsRemaining /\ InstantIffLimit) /\ [][WrongCodeStep]_vars

\* C13: the pairing code is one-time: once try_pair has returned a token for
\* it, a call that presents the code again does not take the success path.
CodeUsedOnceStep ==
    \A t \in Callers : \A code \in CodeInputs :
        (/\ uuid_next >= 1
         /\ pairing_code # None
         /\ trim(code) = trim(pairing_code[1])
         /\ PairCall(t, code)) =>
            pair_pc'[t] # "reset"
C13_CodeIsOneTime == [][CodeUsedOnceStep]_vars

\* C14: constant_time_eq(a, b) is true exactly when a and b are the same byte
\* string, whatever their lengths and also when they hold NUL bytes.
C14_ConstantTimeEqIsEquality ==
    cte_ret # None => cte_ret[1] = (cte_a = cte_b)

\* the lines of a provider whose attempts have all failed, and of the
\* providers up to p
FullLines(p) ==
    [a \in 1..(max_retries + 1) |->
        <<ProviderName(p), a, max_retries + 1, ProviderError(p)>>]
RECURSIVE AllLines(_)
AllLines(p) == IF p = 0 THEN <<>> ELSE AllLines(p - 1) \o FullLines(p)
RECURSIVE SumInvoked(_, _)
SumInvoked(c, p) == IF p = 0 THEN 0 ELSE c.invoked[p] + SumInvoked(c, p - 1)
\* the call of task t has returned a response that a provider gave
ReturnedFromProvider(t) ==
    /\ calls[t].pc = "done"
    /\ calls[t].ret[1][1] = "Ok"
    /\ calls[t].provider >= 1
\* the call of task t has returned the error
ReturnedError(t) == calls[t].pc = "done" /\ calls[t].ret[1][1] = "Err"

\* C15 as stated: the two calls invoke the providers once in total, so the
\* call that filled the cache made one invocation and the call after it none.
CacheHitStep ==
    \A t \in Tasks : \A req \in Requests :
        LET key == cache_key(req.message, req.model)
        IN  (/\ cache[key] # None
             /\ cache[key][1].age < CACHE_TTL_SECS
             /\ RelCallAlone(t, req)) =>
                /\ calls'[t].pc = "done"
                /\ calls'[t].ret = Some(<<"Ok", cache[key][1].content>>)
                /\ SumInvoked(calls'[t], NProviders) = 0
                /\ in_flight' = in_flight
                /\ cache' = cache
CacheFillStep ==
    \A t \in Tasks :
        (calls[t].pc = "in_flight" /\ calls'[t].pc = "done"
            /\ calls'[t].ret[1][1] = "Ok") =>
                /\ cache'[calls[t].key[1]] =
                      Some([content |-> calls'[t].ret[1][2], age |-> 0])
                /\ \A k \in Keys \ {calls[t].key[1]} : cache'[k] = cache[k]
CacheKeepStep ==
    \A k \in Keys :
        (cache[k] # None /\ cache[k][1].age < CACHE_TTL_SECS) =>
            /\ cache'[k] # None
            /\ cache'[k][1].content = cache[k][1].content
FilledAfterOneInvocation ==
    \A t \in Tasks :
        ReturnedFromProvider(t) => SumInvoked(calls[t], NProviders) = 1
C15_TwoCallsInvokeOnce ==
    /\ []FilledAfterOneInvocation
    /\ [][CacheHitStep /\ CacheFillStep /\ CacheKeepStep]_vars

\* C15 amended: a call made while the entry of its (message, model) is less
\* than CACHE_TTL_SECS old invokes no provider and returns the entry's
\* content, which is the response returned by the call that filled it; that
\* call made at least one invocation.
FilledAfterInvocations ==
    \A t \in Tasks :
        ReturnedFromProvider(t) =>
            /\ SumInvoked(calls[t], NProviders) >= 1
            /\ cache[calls[t].key[1]] # None
            /\ cache[calls[t].key[1]][1].content = calls[t].ret[1][2]
C15_SecondCallHitsCache ==
    /\ []FilledAfterInvocations
    /\ [][CacheHitStep /\ CacheFillStep /\ CacheKeepStep]_vars
\* the entry is one clock reading old and a call with its (message, model)
\* has returned its content without invoking a provider
C15_Witness ==
    \E t \in Tasks : \E k \in Keys :
        /\ calls[t].pc = "done"
        /\ calls[t].provider = 0
        /\ calls[t].key = Some(k)
        /\ cache[k] # None
        /\ cache[k][1].age = TickSecs
        /\ calls[t].ret = Some(<<"Ok", cache[k][1].content>>)

\* C16: a provider that fails k <= max_retries times and then succeeds has
\* been invoked k + 1 times when the call returns; the call returns that
\* response, not the error, and no later provider of the chain is invoked.
\* Until then every failure before the provider's last attempt is followed
\* by a sleep and another attempt on the same provider.
LinesOf(c, p) == SelectSeq(c.failures, LAMBDA line : line[1] = ProviderName(p))
RecoveredReturn ==
    \A t \in Tasks :
        ReturnedFromProvider(t) =>
            LET c == calls[t]
                k == Len(LinesOf(c, c.provider))
            IN  /\ k <= max_retries
                /\ c.attempt = k
                /\ c.invoked[c.provider] = k + 1
                /\ \A q \in Providers : q > c.provider => c.invoked[q] = 0
RetryStep ==
    \A t \in Tasks :
        /\ (calls[t].pc = "in_flight" /\ calls'[t].pc # "in_flight") =>
              \/ /\ calls'[t].pc = "done"
                 /\ calls'[t].ret[1][1] = "Ok"
                 /\ calls'[t].ret[1][2] \in Responses
              \/ /\ Len(calls'[t].failures) = Len(calls[t].failures) + 1
                 /\ calls[t].attempt < max_retries =>
                       /\ calls'[t].pc = "sleep"
                       /\ calls'[t].provider = calls[t].provider
        /\ (calls[t].pc = "sleep" /\ calls'[t].pc # "sleep") =>
              /\ calls'[t].pc = "attempt"
              /\ calls'[t].attempt = calls[t].attempt + 1
              /\ calls'[t].provider = calls[t].provider
C16_RetryThenRecover == []RecoveredReturn /\ [][RetryStep]_vars
\* the first provider has failed max_retries = 2 times and then answered
C16_Witness ==
    \E t \in Tasks :
        /\ ReturnedFromProvider(t)
        /\ max_retries = 2
        /\ calls[t].provider = 1
        /\ calls[t].invoked[1] = 3
        /\ Len(calls[t].failures) = 2

\* C17: a provider is invoked only after every provider before it in the
\* chain has failed max_retries + 1 times in this call; when provider 1
\* always fails and provider 2 answers at once the call returns provider 2's
\* response after max_retries + 1 invocations of provider 1 and one of
\* provider 2.
OrderedFallback ==
    \A t \in Tasks : \A p \in Providers :
        calls[t].invoked[p] >= 1 =>
            /\ p <= calls[t].provider
            /\ calls[t].invoked[p] <= max_retries + 1
            /\ \A q \in Providers : q < p =>
                  /\ calls[t].invoked[q] = max_retries + 1
                  /\ LinesOf(calls[t], q) = FullLines(q)
FallbackStep ==
    \A t \in Tasks :
        (calls[t].provider >= 1 /\ calls'[t].provider > calls[t].provider) =>
            /\ calls'[t].provider = calls[t].provider + 1
            /\ calls[t].pc = "in_flight"
            /\ calls[t].attempt = max_retries
            /\ calls'[t].pc = "attempt"
            /\ calls'[t].attempt = 0
C17_OrderedFallback == []OrderedFallback /\ [][FallbackStep]_vars
\* provider 1 has failed three times and provider 2 has answered at once
C17_Witness ==
    \E t \in Tasks :
        /\ ReturnedFromProvider(t)
        /\ max_retries = 2
        /\ calls[t].provider = 2
        /\ calls[t].invoked[1] = 3
        /\ calls[t].invoked[2] = 1
        /\ calls[t].ret[1][2] \in Responses

\* C18 as stated: when every attempt on every provider fails the call fails
\* with one error that holds a line per attempt, |providers| x (max_retries+1)
\* lines in provider order and attempt order, and the cache is as it was when
\* the call looked its key up.
ErrorHasEveryLine ==
    \A t \in Tasks :
        ReturnedError(t) =>
            /\ calls[t].ret = Some(Err(AllFailed(AllLines(NProviders))))
            /\ Len(calls[t].ret[1][2][2]) = NProviders * (max_retries + 1)
            /\ \A p \in Providers : calls[t].invoked[p] = max_retries + 1
FailedCallLeavesCache ==
    \A t \in Tasks :
        ReturnedError(t) => cache[calls[t].key[1]] = calls[t].entry
FailingStep ==
    \A t \in Tasks :
        (calls[t].pc = "in_flight" /\ calls'[t].pc # "in_flight"
            /\ ~(calls'[t].pc = "done" /\ calls'[t].ret[1][1] = "Ok")) =>
                cache' = cache
C18_AggregatedError ==
    [](ErrorHasEveryLine /\ FailedCallLeavesCache) /\ [][FailingStep]_vars

\* C18 amended: the error holds the lines as stated; the failed call inserts
\* nothing, and the one change it makes to the cache is that, before the
\* first attempt, it removes the entry of its key if the entry it looked up
\* had expired.
FailedCallInsertsNothing ==
    \A t \in Tasks : ReturnedError(t) => cache[calls[t].key[1]] = None
EvictStep ==
    \A t \in Tasks :
        (calls[t].pc = "evict" /\ calls'[t].pc # "evict") =>
            /\ calls[t].entry # None
            /\ calls[t].entry[1].age >= CACHE_TTL_SECS
            /\ cache' = [cache EXCEPT ![calls[t].key[1]] = None]
            /\ calls'[t].pc = "attempt"
            /\ calls'[t].invoked = [p \in Providers |-> 0]
C18_AggregatedErrorNoInsert ==
    /\ [](ErrorHasEveryLine /\ FailedCallInsertsNothing)
    /\ [][FailingStep /\ EvictStep]_vars
\* every attempt has failed in a call that had found an expired entry
C18_Witness ==
    \E t \in Tasks :
        /\ ReturnedError(t)
        /\ max_retries = 1
        /\ calls[t].entry # None
        /\ Len(calls[t].failures) = 2 * NProviders

\* C19 as stated: at most one attempt is in flight at a provider at any time,
\* also under concurrent calls.
C19_OneInFlightPerProvider ==
    \A p \in Providers :
        Cardinality({t \in Tasks : <<t, p>> \in in_flight}) <= 1

\* C19 amended: each call has at most one attempt in flight at any time, the
\* one at the provider it is waiting for, and so at most one per provider;
\* calls of different tasks are not serialised, so a provider can have one
\* attempt in flight for each call in progress.
C19_OneInFlightPerCall ==
    \A t \in Tasks :
        /\ Cardinality({p \in Providers : <<t, p>> \in in_flight}) <= 1
        /\ \A p \in Providers :
              <<t, p>> \in in_flight <=>
                  (calls[t].pc = "in_flight" /\ calls[t].provider = p)
\* two calls with different arguments wait for provider 1 at once, one of
\* them in its second attempt
C19_Witness ==
    /\ in_flight = {<<1, 1>>, <<2, 1>>}
    /\ calls[1].invoked[1] = 2
    /\ calls[1].key # calls[2].key

\* C20 as stated: a successful atomic_write(p, b) leaves p holding exactly b
\* and no file of the name p-with-extension-tmp, for every b and whether or
\* not p existed.
C20_WriteThenReadNoTmp ==
    \A w \in Writers :
        (writers[w].pc = "done" /\ writers[w].ret = Some(OkUnit)) =>
            /\ FileAt(writers[w].path[1]) = Some(writers[w].data)
            /\ fs_names[TmpPath(writers[w].path[1])] = 0

\* what a successful call does leave: p holds exactly the data, the handle
\* is closed, and the temp name is gone unless it is p itself (the data was
\* then written to p in place)
AwSuccessPostcondition ==
    \A w \in Writers :
        (writers[w].pc = "done" /\ writers[w].ret = Some(OkUnit)) =>
            LET path == writers[w].path[1]
            IN  /\ FileAt(path) = Some(writers[w].data)
                /\ TmpPath(path) # path => fs_names[TmpPath(path)] = 0
                /\ writers[w].fd = 0
\* the empty data has been written to state.json
AwSuccessReached ==
    \E w \in Writers :
        /\ writers[w].pc = "done"
        /\ writers[w].ret = Some(OkUnit)
        /\ writers[w].path = Some(<<"state", "json">>)
        /\ writers[w].data = <<>>
        /\ FileAt(<<"state", "json">>) = Some(<<>>)
        /\ fs_names[<<"state", "tmp">>] = 0

\* C21: whenever the process stops during atomic_write(p, b), p holds its
\* complete previous content (or is absent as before) or exactly b.
C21_CrashLeavesOldOrNew ==
    \A w \in Writers :
        writers[w].pc = "crashed" =>
            FileAt(writers[w].path[1]) \in {writers[w].before, Some(writers[w].data)}

\* what does hold: a target that is not its own temp path holds its previous
\* content or the new data at every point of a call, a stop included
AwTargetOldOrNew ==
    \A w \in Writers :
        (writers[w].pc # "idle" /\ TmpPath(writers[w].path[1]) # writers[w].path[1]) =>
            FileAt(writers[w].path[1]) \in {writers[w].before, Some(writers[w].data)}
\* the process stopped between the write and the rename, the old content is
\* still at state.json and the temp file holds the new data
AwStoppedBeforeRename ==
    \E w \in Writers :
        /\ writers[w].pc = "crashed"
        /\ writers[w].path = Some(<<"state", "json">>)
        /\ writers[w].data = <<1, 2>>
        /\ FileAt(<<"state", "json">>) = Some(OldData)
        /\ FileAt(<<"state", "tmp">>) = Some(<<1, 2>>)

\* atomic_write has returned an error to writer w
AwFailed(w) == writers[w].pc = "done" /\ writers[w].ret \notin {None, Some(OkUnit)}

\* C22: when atomic_write returns an error (the create, the write, the fsync
\* or the rename failed, a missing directory included), the temp file is
\* gone, the target holds what it held before the call and no directory was
\* made.
C22_FailureRemovesTmpKeepsTarget ==
    \A w \in Writers :
        AwFailed(w) =>
            /\ fs_names[TmpPath(writers[w].path[1])] = 0
            /\ FileAt(writers[w].path[1]) = writers[w].before
            /\ ~parent_exists => \A q \in Paths : fs_names[q] = 0

\* what does hold: a call that fails leaves a target that is not its own
\* temp path as it was, and every call in a missing directory fails
AwFailureKeepsOtherTarget ==
    \A w \in Writers :
        /\ (AwFailed(w)
              /\ TmpPath(writers[w].path[1]) # writers[w].path[1]) =>
                FileAt(writers[w].path[1]) = writers[w].before
        /\ (writers[w].pc = "done" /\ ~parent_exists) =>
                /\ writers[w].ret = Some(Err(CreateTmpError))
                /\ \A q \in Paths : fs_names[q] = 0
\* the write to the temp file of state.json failed and the temp file is gone
AwFailedWriteCleaned ==
    \E w \in Writers :
        /\ writers[w].pc = "done"
        /\ writers[w].ret = Some(Err(WriteTmpError))
        /\ writers[w].path = Some(<<"state", "json">>)
        /\ FileAt(<<"state", "json">>) = Some(OldData)
        /\ fs_names[<<"state", "tmp">>] = 0

\* the state writer of process i got an error from its last write
SwFailedWrite(i) ==
    sw_pc[i] = "tick" /\ sw_ret[i] \notin {None, Some(OkUnit)}

\* the state writer runs from the spawn to the abort, whatever its writes
\* returned
SwRunsWhileSpawned ==
    \A i \in Instances :
        ("state_writer" \in tasks[i]) <=> (sw_pc[i] \in {"tick", "await"})

\* the end of a write that the state writer awaits puts it back at the top
\* of its loop and changes nothing of the orchestrator; the tick that
\* follows hands the snapshot with written_at to a new write
SwLoopStep ==
    \A i \in Instances :
        /\ (sw_pc[i] = "await" /\ sw_write[i] # None /\ sw_write'[i] = None) =>
              /\ sw_pc'[i] = "tick"
              /\ sw_due'[i] = sw_due[i]
              /\ UNCHANGED runVars
        /\ (SwFailedWrite(i) /\ sw_pc'[i] = "await") =>
              /\ sw_due[i] = 0
              /\ sw_due'[i] = STATUS_FLUSH_SECONDS
              /\ sw_write'[i] = Some([snapshot |-> snapshot(health[i], clock),
                                       written_at |-> clock])
              /\ UNCHANGED runVars
        /\ (SwFailedWrite(i) /\ sw_pc'[i] = "none") => run_pc[i] \in {"ctrl_c", "abort"}

\* C23: a failed state-file write stops neither the state writer nor the
\* daemon: the writer goes back to its loop, the orchestrator sees nothing
\* of the error, and at the next tick the writer takes a snapshot, adds
\* written_at and starts another write (unless the daemon shuts down first).
C23_WriteErrorsSwallowed ==
    /\ []SwRunsWhileSpawned
    /\ [][SwLoopStep]_vars
    /\ \A i \in Instances :
          SwFailedWrite(i) ~> (sw_pc[i] = "await" \/ sw_pc[i] = "none")
\* the rename of a state-file write failed and the state writer waits for
\* its next tick while the daemon runs
C23_Witness ==
    \E i \in Instances :
        /\ sw_ret[i] = Some(Err(RenameError))
        /\ sw_pc[i] = "tick"
        /\ sw_due[i] = STATUS_FLUSH_SECONDS
        /\ run_pc[i] = "ctrl_c"
        /\ "state_writer" \in tasks[i]

\* the order of the shutdown of process i: the signal changes nothing, then
\* "daemon" is marked, then the tasks are aborted and joined, and only the
\* return gives up the lock
ShutdownStep ==
    \A i \in Instances :
        /\ (run_pc[i] = "ctrl_c" /\ run_pc'[i] = "shutdown") =>
              /\ health'[i] = health[i] /\ tasks'[i] = tasks[i] /\ locked'[i]
        /\ (run_pc[i] = "shutdown" /\ run_pc'[i] # "shutdown") =>
              /\ run_pc'[i] = "abort"
              /\ health'[i]["daemon"].status = "error"
              /\ health'[i]["daemon"].last_error = Some("shutdown requested")
              /\ tasks'[i] = tasks[i] /\ tasks[i] # {} /\ locked'[i]
        /\ (run_pc[i] = "abort" /\ run_pc'[i] # "abort") =>
              /\ run_pc'[i] = "return"
              /\ tasks'[i] = {} /\ sw_pc'[i] = "none" /\ locked'[i]
        /\ (run_pc[i] = "return" /\ run_pc'[i] # "return") =>
              /\ result'[i] = Some(OkResult)
              /\ tasks[i] = {} /\ ~locked'[i]

\* C24 as stated: on the signal "daemon" is marked first, then every task
\* is aborted and joined before run() returns and gives up the lock, so
\* that no task of a process is running once it has given up the lock.
C24_NothingRunsAfterUnlock ==
    /\ [][ShutdownStep]_vars
    /\ [](\A i \in Instances :
            (run_pc[i] \in {"return", "returned"} /\ result[i] \in {None, Some(OkResult)}) =>
                /\ tasks[i] = {} /\ sw_pc[i] = "none"
                /\ sw_write[i] = None)

\* C24 amended: on the signal "daemon" is marked first, then every task of
\* the JoinSet is aborted and joined before run() returns and gives up the
\* lock.  A state-file write already handed to the blocking pool is not a
\* task of the JoinSet: it is not aborted and may still run after the lock
\* is given up.
C24_JoinSetEmptyAtUnlock ==
    /\ [][ShutdownStep]_vars
    /\ [](\A i \in Instances :
            (run_pc[i] \in {"return", "returned"} /\ result[i] \in {None, Some(OkResult)}) =>
                /\ tasks[i] = {} /\ sw_pc[i] = "none")
\* a process has returned Ok after the signal and given up the lock while
\* its last state-file write is still running, and another process holds
\* the lock
C24_Witness ==
    \E i, j \in Instances :
        /\ run_pc[i] = "returned" /\ result[i] = Some(OkResult)
        /\ ~locked[i] /\ tasks[i] = {}
        /\ health[i]["daemon"].last_error = Some("shutdown requested")
        /\ sw_write[i] # None
        /\ locked[j] /\ run_pc[j] = "ctrl_c"

\* the URL strings of the inputs by what they are: no URL at all, a host
\* that is a blocked name or below one (in any case), an IPv4 or bracketed
\* IPv6 address of a private, loopback, link-local, broadcast, unspecified
\* or carrier-NAT range, and a public host
UnparsableStrs == {"not a url"}
BlockedStrs ==
    {"http://localhost/path", "custom://LocalHost/x", "http://api.localhost/",
     "http://metadata.google.internal/computeMetadata",
     "http://metadata.aws.internal/", "http://instance-data/latest"}
PrivateStrs ==
    {"http://169.254.169.254/latest/meta-data", "http://10.0.0.1/api",
     "http://172.16.0.1/api", "http://172.31.255.255/", "http://192.168.1.1/api",
     "http://127.0.0.1/", "http://100.64.0.1/", "http://0.0.0.0/",
     "http://255.255.255.255/", "http://[::1]/", "http://[::]/",
     "http://[fe80::1]/", "http://[fd00::1]/"}
PublicStrs ==
    {"https://api.openai.com/v1/chat", "https://mylocalhost/",
     "https://localhost.example.com/", "https://8.8.8.8/", "https://172.32.0.1/",
     "https://100.128.0.1/", "https://[2607:f8b0:4004:800::200e]/",
     "https://[fec0::1]/"}

\* C25: validate_url_not_private rejects every URL that does not parse,
\* every URL whose host is a blocked name or a subdomain of one, whatever
\* its case, and every URL whose host is a private IPv4 or bracketed IPv6
\* address; it accepts every URL with a public host.
C25_ValidateUrl ==
    http_ret # None =>
        LET str == http_url[1].str
            ret == http_ret[1]
        IN  /\ str \in UnparsableStrs => ret = Err(<<"Invalid URL">>)
            /\ str \in BlockedStrs =>
                  ret = Err(<<"Blocked internal hostname", http_url[1].host[1]>>)
            /\ str \in PrivateStrs =>
                  ret[1] = "Err" /\ ret[2][1] = "Blocked private IP"
            /\ str \in PublicStrs => ret = OkUnit
\* the bracketed loopback address has been rejected
C25_Witness ==
    /\ http_url # None
    /\ http_url[1].str = "http://[::1]/"
    /\ http_ret = Some(Err(<<"Blocked private IP", <<"V6", <<0, 0, 0, 0, 0, 0, 0, 1>>>>>>))

\* every URL requested in a chain passes the pre-request check
AllRequestedValid ==
    \A k \in 1..Len(chain) : validate_url_not_private(chain[k]) = OkUnit
\* a hop is refused with a permission-denied error exactly when the check
\* rejects its target, and a refused hop is not followed
HopStep ==
    (chain_state = <<"requesting">> /\ chain_loc' # None
        /\ chain_state'[1] # "response"
        /\ (chain' # chain \/ chain_state' # chain_state)) =>
        LET loc == chain_loc'[1]
            rejected == validate_url_not_private(loc) # OkUnit
        IN  /\ rejected <=> chain_state'[1] = "error"
            /\ rejected => chain_state'[2] = "PermissionDenied" /\ chain' = chain
            /\ chain' # chain => chain' = Append(chain, loc)

\* C26: at every position of a redirect chain the policy rejects the hop
\* with a permission-denied error exactly when validate_url_not_private
\* rejects the target, and a rejected hop is never followed.
C26_HopsRevalidated == []AllRequestedValid /\ [][HopStep]_vars
\* the fifth hop of a chain went to the bracketed loopback address and was
\* refused
C26_Witness ==
    /\ Len(chain) = 5
    /\ chain_loc # None /\ chain_loc[1].str = "http://[::1]/"
    /\ chain_state[1] = "error"

\* the policy is asked about a hop to a target that the check accepts; the
\* URLs requested so far are the original one and the hops followed, so the
\* hop is the Len(chain)-th of its chain
AllowedHop ==
    /\ chain_state = <<"requesting">> /\ chain_loc' # None
    /\ chain_state'[1] # "response"
    /\ (chain' # chain \/ chain_state' # chain_state)
    /\ validate_url_not_private(chain_loc'[1]) = OkUnit

\* C27: the n-th hop of a chain to an allowed host is followed for every
\* n <= 10 and the chain is cut for n > 10.
C27_TenHopsFollowed ==
    [][AllowedHop =>
        IF Len(chain) <= REDIRECT_CAP
        THEN chain' = Append(chain, chain_loc'[1]) /\ chain_state' = chain_state
        ELSE chain' = chain /\ chain_state' = <<"stop">>]_vars

\* what does hold: the n-th hop to an allowed host is followed for n < 10
\* and the tenth is not: the client stops and hands back the 3xx response
RedirectCutAtTenth ==
    [][AllowedHop =>
        IF Len(chain) < REDIRECT_CAP
        THEN chain' = Append(chain, chain_loc'[1]) /\ chain_state' = chain_state
        ELSE chain' = chain /\ chain_state' = <<"stop">>]_vars
\* nine hops were followed and the tenth was not
RedirectTenthCut ==
    Len(chain) = REDIRECT_CAP /\ chain_state = <<"stop">>

\* the value one jitter computation returned
JitReturned == jit_ret[1]

\* C28: for every base b >= 0 and every draw the jittered value lies in
\* [ceil(0.75 b), floor(1.25 b)] or is 1.
C28_JitterCeilRange ==
    jit_ret # None =>
        \/ JitReturned = 1
        \/ /\ JitReturned >= (3 * jit_base + 3) \div 4
           /\ JitReturned <= (5 * jit_base) \div 4

\* C28, amended: for every base b >= 0 and every draw the jittered value
\* lies in [floor(0.75 b), floor(1.25 b)] or is 1, at both sites.
C28_JitterFloorRange ==
    jit_ret # None =>
        \/ JitReturned = 1
        \/ /\ JitReturned >= (3 * jit_base) \div 4
           /\ JitReturned <= (5 * jit_base) \div 4
\* a base of 3 with the smallest draw gives 2, below ceil(2.25) = 3
C28_Witness ==
    /\ jit_site = "reliable" /\ jit_base = 3 /\ jit_raw = 0
    /\ jit_ret = Some(2)

\* the content stored and what reading it back returned
ZReadBack == z_ret # None
ZRoundTripped == z_ret[1][1] = "Ok" /\ z_ret[1][2] = z_content[1]

\* C29: for every string c, of any length and with any prefix,
\* maybe_decompress of the stored form returned by maybe_compress(c)
\* succeeds and returns c.
C29_RoundTrip == ZReadBack => ZRoundTripped

\* what does hold: contents that do not themselves begin with "lz4:", and
\* contents above the threshold whatever their beginning, come back
ZRoundTripUnlessShortPrefixed ==
    (/\ ZReadBack
     /\ \/ ~starts_with(z_content[1], LZ4_PREFIX)
        \/ Len(z_content[1]) > COMPRESSION_THRESHOLD)
        => ZRoundTripped
\* a long content behind "lz4:" was compressed and came back
ZLongPrefixedReadBack ==
    /\ ZReadBack /\ z_stored[1][2]
    /\ starts_with(z_content[1], LZ4_PREFIX)
    /\ ZRoundTripped
\* a short content behind "lz4:" was stored as it is and read as compressed
ZShortPrefixedFails ==
    /\ ZReadBack /\ ~z_stored[1][2]
    /\ z_content[1] = LZ4_PREFIX \o <<104, 48, 104>>
    /\ z_ret[1] = Err("Hex string has odd length")

\* the backoffs of the sleeps of call t after failures of provider p, in order
SleptFor(t, p) ==
    LET of_p == SelectSeq(calls[t].slept, LAMBDA e : e.provider = p)
    IN  [i \in DOMAIN of_p |-> of_p[i].backoff_ms]
\* call t is through with provider p: it fell back or failed for good
Exhausted(t, p) ==
    \/ calls[t].provider > p
    \/ calls[t].provider = p /\ calls[t].ret # None /\ calls[t].ret[1][1] = "Err"
\* the floor of the base backoff, the start at the base for every provider,
\* and the sleeps: one per failed attempt but the last
SleepsOfCall(t, p) ==
    /\ base_backoff_ms >= BACKOFF_FLOOR_MS
    /\ SleptFor(t, p) # <<>> => SleptFor(t, p)[1] = base_backoff_ms
    /\ Len(SleptFor(t, p)) <= max_retries
    /\ Exhausted(t, p) => Len(SleptFor(t, p)) = max_retries
    /\ calls[t].pc = "sleep" =>
          /\ calls[t].attempt < max_retries
          /\ calls[t].failures # <<>>
          /\ calls[t].slept[Len(calls[t].slept)] = SleepEntry(calls[t])
    /\ (calls[t].provider = p /\ calls[t].pc \in {"attempt", "in_flight"}) =>
          /\ Len(SleptFor(t, p)) = calls[t].attempt
          /\ calls[t].attempt = 0 => calls[t].backoff_ms = base_backoff_ms

\* C30: within one call, for each provider the backoff starts again at
\* max(base_backoff_ms, 50), a sleep happens only after a failed attempt
\* that is not the provider's last (exactly max_retries sleeps for an
\* exhausted provider, none before falling back), and the backoff doubles
\* after each sleep.
C30_BackoffDoubles ==
    \A t \in Tasks, p \in Providers :
        /\ SleepsOfCall(t, p)
        /\ \A i \in 2..Len(SleptFor(t, p)) :
              SleptFor(t, p)[i] = 2 * SleptFor(t, p)[i - 1]

\* C30, amended: the same, with the backoff after each sleep the smaller of
\* its double and 10 000 ms.
C30_BackoffDoublesToCap ==
    \A t \in Tasks, p \in Providers :
        /\ SleepsOfCall(t, p)
        /\ \A i \in 2..Len(SleptFor(t, p)) :
              SleptFor(t, p)[i] = Min(2 * SleptFor(t, p)[i - 1], BACKOFF_CAP_MS)
\* with two retries and a base of 20 000 ms the first provider was exhausted
\* after sleeps of 20 000 and 10 000, and the second has slept its first
C30_Witness ==
    \E t \in Tasks :
        /\ max_retries = 2 /\ calls[t].provider = 2 /\ calls[t].pc = "sleep"
        /\ SleptFor(t, 1) = <<20000, 10000>>
        /\ SleptFor(t, 2) = <<20000>>

\* a step taken inside the lockout window: the clock moves on, or a call
\* returns; a call of try_pair returns the seconds that remain
LockedOutCallStep ==
    LockedOut(failed_attempts) =>
        /\ UNCHANGED <<pairing_code, paired_tokens, uuid_next, pair_pc>>
        /\ \/ failed_attempts' = failed_attempts
           \/ /\ pair_ret' = NoRets
              /\ failed_attempts' =
                    <<failed_attempts[1], Some(Elapsed(failed_attempts[2]) + 1)>>
        /\ \A t \in Callers :
              (pair_ret'[t] # None /\ pair_ret'[t][1] # "Auth") =>
                  pair_ret'[t] =
                      ErrRet(PAIR_LOCKOUT_SECS - Elapsed(failed_attempts[2]))

\* C31: while the guard is locked out every try_pair call, also one with
\* the correct code, returns Err and changes nothing: no token is issued and
\* paired_tokens, the failed count and the lockout instant stay as they
\* are, so a rejected call does not extend the lockout.
C31_LockedOutCallChangesNothing == [][LockedOutCallStep]_vars
\* two seconds into the lockout of a guard that has a code a call was
\* rejected, and the lockout instant is still two seconds old
C31_Witness ==
    \E t \in Callers :
        /\ pairing_code # None
        /\ failed_attempts = <<MAX_PAIR_ATTEMPTS, Some(2)>>
        /\ pair_ret[t] = ErrRet(PAIR_LOCKOUT_SECS - 2)

\* the status of the supervised component in each phase of its supervisor
StatusFollowsPhase ==
    /\ sup_pc \in {"invoke", "awaiting"} =>
          SupEntry.status = "ok" /\ SupEntry.last_error = None
    /\ sup_pc \in {"bump", "sleep"} =>
          SupEntry.status = "error" /\ SupEntry.last_error # None
\* the status becomes ok only in the step that starts an iteration, which
\* goes on to start the factory
OkOnlyAtFactoryStart ==
    (SupEntry.status # "ok" /\ SupEntry'.status = "ok") =>
        sup_pc \in {"spawned", "loop"} /\ sup_pc' = "invoke"

\* C32: for a component touched only by its supervisor the status is ok
\* with last_error cleared while the factory runs and error with last_error
\* set during the whole backoff sleep; it returns to ok only when the next
\* iteration starts the factory, never during the sleep.
C32_StatusFollowsPhase == []StatusFollowsPhase /\ [][OkOnlyAtFactoryStart]_vars
\* the factory runs again after an exit: the status is ok again and the
\* error of the exit is cleared
C32_Witness ==
    /\ sup_pc = "awaiting"
    /\ outcome # None /\ outcome[1] # OkUnit
    /\ SupEntry.restart_count = 1
    /\ SupEntry.status = "ok" /\ SupEntry.last_error = None

\* the code exists exactly on a guard constructed with pairing required and
\* no token; only such a guard issues tokens, and a call on any other guard
\* is never on the success path
CodeIffConstructedForPairing ==
    /\ (pairing_code # None) <=> (require_pairing /\ GivenTokens = {})
    /\ pairing_code = None =>
          /\ uuid_next = 0 /\ IssuedTokens = {}
          /\ \A t \in Callers :
                /\ pair_pc[t] \in {"idle", "increment"}
                /\ pair_ret[t] # None /\ pair_ret[t][1] = "Ok" =>
                      pair_ret[t] = OkRet(None)
\* the code never changes, and on a guard without a code a call that is
\* not rejected by the lockout is counted as a failure
CodeFixedAndFailuresCounted ==
    /\ UNCHANGED <<pairing_code, require_pairing>>
    /\ pairing_code = None =>
          \A t \in Callers :
              /\ (pair_pc[t] = "idle" /\ pair_pc'[t] # "idle") =>
                    ~LockedOut(failed_attempts) /\ pair_pc'[t] = "increment"
              /\ (pair_pc[t] = "increment" /\ pair_pc'[t] # "increment") =>
                    /\ pair_ret'[t] = OkRet(None)
                    /\ failed_attempts'[1] = failed_attempts[1] + 1

\* C33: a pairing code exists iff the guard was constructed with
\* require_pairing and an empty token set, and it never changes; try_pair
\* returns a token only on such a guard, and on a guard built with tokens
\* or with pairing disabled every try_pair returns Ok(None) or Err and
\* counts towards the lockout.
C33_CodeOnlyOnFreshGuard ==
    []CodeIffConstructedForPairing /\ [][CodeFixedAndFailuresCounted]_vars
\* a guard built with a token has no code, and calls on it have run into
\* the lockout
C33_Witness ==
    \E t \in Callers :
        /\ require_pairing /\ pairing_code = None
        /\ paired_tokens = ExistingTokens
        /\ failed_attempts[1] = MAX_PAIR_ATTEMPTS
        /\ pair_ret[t] # None /\ pair_ret[t][1] = "Err"

\* a failure is counted, and Ok(None) returned, while the guard is locked
\* out
CountedWhileLockedOut ==
    \E t \in Callers :
        /\ pair_pc[t] = "increment" /\ pair_pc'[t] = "idle"
        /\ LockedOut(failed_attempts)

\* C34: under any interleaving of concurrent try_pair calls at most
\* MAX_PAIR_ATTEMPTS wrong codes are compared and answered Ok(None) before
\* calls are answered Err: the lockout check and the increment of the
\* failed count act as one atomic step, so no failure is counted while the
\* guard is locked out.
C34_CheckAndIncrementAtomic == [][~CountedWhileLockedOut]_vars

\* what does hold with the clock at rest: every caller can have passed the
\* check before the lockout began, so the count stays within
\* MAX_PAIR_ATTEMPTS + NCallers - 1
FailedCountOvershoot ==
    failed_attempts[1] <= MAX_PAIR_ATTEMPTS + NCallers - 1
\* a sixth wrong code was answered Ok(None) inside the lockout window
SixthFailureCounted ==
    \E t \in Callers :
        /\ failed_attempts = <<MAX_PAIR_ATTEMPTS + 1, Some(0)>>
        /\ pair_ret[t] = OkRet(None)

\* the lockout window is over and the failed count stands as it was
LockoutExpired ==
    /\ failed_attempts[2] # None
    /\ failed_attempts[1] >= MAX_PAIR_ATTEMPTS
    /\ ~LockedOut(failed_attempts)
\* a failure counted after the window: the count goes above
\* MAX_PAIR_ATTEMPTS, the lockout instant is now and the call returns Ok(None)
CountedAfterExpiry ==
    \A t \in Callers :
        (/\ pair_pc[t] = "increment" /\ pair_pc'[t] # "increment"
         /\ failed_attempts[1] >= MAX_PAIR_ATTEMPTS) =>
            /\ pair_ret'[t] = OkRet(None)
            /\ failed_attempts' = <<failed_attempts[1] + 1, Some(0)>>
            /\ LockedOut(failed_attempts')
\* only the success path brings the count down
CountOnlyResetBySuccess ==
    failed_attempts'[1] < failed_attempts[1] =>
        /\ failed_attempts' = <<0, None>>
        /\ \E t \in Callers : pair_pc[t] = "reset" /\ pair_pc'[t] = "insert"
WrongCodeAfterExpiry ==
    LockoutExpired =>
        \A t \in Callers : \A code \in CodeInputs :
            (WrongCode(code) /\ PairCall(t, code)) => pair_pc'[t] = "increment"

\* C35: after a lockout window has expired the failed count is not reset:
\* the next wrong code returns Ok(None), raises the count above
\* MAX_PAIR_ATTEMPTS and sets the lockout instant to now, so a new full
\* window starts after a single wrong attempt, and this repeats until a
\* correct code resets the count.
C35_RelockAfterOneWrong ==
    [][CountedAfterExpiry /\ CountOnlyResetBySuccess /\ WrongCodeAfterExpiry]_vars

\* what does hold: the same for every code that constant_time_eq tells
\* apart from the pairing code
RejectedCodeAfterExpiry ==
    LockoutExpired =>
        \A t \in Callers : \A code \in CodeInputs :
            (/\ \/ pairing_code = None
                \/ ~constant_time_eq(trim(code), trim(pairing_code[1]))
             /\ PairCall(t, code)) => pair_pc'[t] = "increment"
RelockAfterOneRejected ==
    [][CountedAfterExpiry /\ CountOnlyResetBySuccess /\ RejectedCodeAfterExpiry]_vars
\* one wrong code after the first window has locked the guard again
RelockedAfterExpiry ==
    \E t \in Callers :
        /\ failed_attempts = <<MAX_PAIR_ATTEMPTS + 1, Some(0)>>
        /\ pair_ret[t] = OkRet(None)

\* the key of a call in progress is the digest of its message and model
KeyOfMessageAndModel ==
    \A t \in Tasks :
        calls[t].pc # "idle" =>
            calls[t].key =
                Some(cache_key(calls[t].req[1].message, calls[t].req[1].model))
\* a call that begins while the entry of its key is younger than the TTL
\* returns the content of the entry; no provider is invoked and the cache
\* is left as it is
FreshEntryReturned ==
    \A t \in Tasks :
        (/\ calls[t].pc = "idle" /\ calls'[t].pc # "idle"
         /\ cache[calls'[t].key[1]] # None
         /\ Fresh(cache[calls'[t].key[1]][1])) =>
            /\ calls'[t].pc = "done"
            /\ calls'[t].ret = Some(<<"Ok", cache[calls'[t].key[1]][1].content>>)
            /\ \A p \in Providers : calls'[t].invoked[p] = 0
            /\ UNCHANGED <<cache, in_flight>>

\* C36: the cache key depends only on (message, model): a call whose
\* (message, model) matches an entry younger than the TTL returns the
\* entry's content without invoking a provider, also when its system
\* prompt or temperature differ from those of the call that filled the
\* entry.
C36_KeyIgnoresPromptAndTemperature ==
    []KeyOfMessageAndModel /\ [][FreshEntryReturned]_vars
\* a call without a system prompt at temperature 0.7 filled the entry, and
\* a call with a system prompt at temperature 0 got its response from the
\* cache
C36_Witness ==
    \E t \in Tasks, u \in Tasks :
        /\ calls[t].pc = "done" /\ calls[u].pc = "done"
        /\ calls[t].invoked[1] = 1 /\ calls[t].ret # None
        /\ calls[t].req = Some([message |-> "hello", model |-> "test",
                                 system_prompt |-> None, temperature |-> 7])
        /\ calls[u].req = Some([message |-> "hello", model |-> "test",
                                 system_prompt |-> Some("be brief"),
                                 temperature |-> 0])
        /\ \A p \in Providers : calls[u].invoked[p] = 0
        /\ calls[u].ret = calls[t].ret /\ calls[u].ret[1][1] = "Ok"
        /\ cache[calls[u].key[1]] # None
        /\ cache[calls[u].key[1]][1].content = calls[u].ret[1][2]

\* no step takes out an entry that is younger than the TTL
FreshEntryKept ==
    \A k \in Keys :
        (cache[k] # None /\ Fresh(cache[k][1])) => cache'[k] # None

\* C37: a cache entry younger than the TTL is never removed: under any
\* interleaving of concurrent calls with the same (message, model) the
\* eviction on the read path removes only the expired entry it observed,
\* also when another task inserts a fresh entry for the key between the
\* expiry check and the remove.
C37_FreshEntryNeverRemoved == [][FreshEntryKept]_vars

\* what does hold: the eviction removes whatever the key holds when it
\* runs, and that is the entry it observed whenever calls do not overlap
EvictionRemovesByKey ==
    \A t \in Tasks :
        (calls[t].pc = "evict" /\ calls'[t].pc # "evict") =>
            /\ cache'[calls[t].key[1]] = None
            /\ calls[t].entry # None /\ ~Fresh(calls[t].entry[1])
EvictionByKey == [][EvictionRemovesByKey]_vars
\* a call is about to evict the expired entry it saw while the key holds
\* an entry that another call has just inserted
FreshEntryAboutToBeEvicted ==
    \E t \in Tasks :
        /\ calls[t].pc = "evict"
        /\ cache[calls[t].key[1]] # None
        /\ cache[calls[t].key[1]][1].age = 0
        /\ cache[calls[t].key[1]] # calls[t].entry

\* every writer has a call on the shared target that has begun and whose
\* result has not been taken yet
AllWritersCalled == \A w \in Writers : writers[w].pc # "idle"
\* what the target may hold then: what it held when one of the calls was
\* made, or the data of one of the calls
SharedTargetWhole ==
    \E w \in Writers :
        \/ FileAt(SharedTarget) = writers[w].before
        \/ FileAt(SharedTarget) = Some(writers[w].data)

\* C38: when two atomic_write calls on the same target (hence the same
\* temp path) run concurrently, in every interleaving of their steps the
\* target only ever holds the complete content of one of the two writes or
\* its complete previous content, and no temp file remains once both calls
\* have returned.
C38_ConcurrentWritesWhole ==
    AllWritersCalled =>
        /\ SharedTargetWhole
        /\ (\A w \in Writers : writers[w].pc = "done") =>
              fs_names[TmpPath(SharedTarget)] = 0

\* what does hold on a file system free of faults: no temp file remains
\* once both calls have returned
NoTmpOnceBothReturned ==
    (\A w \in Writers : writers[w].pc = "done") =>
        fs_names[TmpPath(SharedTarget)] = 0
\* both calls have returned, one of them with Ok(()), and the target holds
\* a file that is neither its previous content nor the data of either call
SharedTargetTorn ==
    /\ \A w \in Writers : writers[w].pc = "done"
    /\ \E w \in Writers : writers[w].ret = Some(OkUnit)
    /\ FileAt(SharedTarget) # None
    /\ ~SharedTargetWhole

\* at every point where the supervisor is suspended, and after an abort,
\* every factory exit so far has been counted
RestartsMatchExits ==
    sup_pc \in {"spawned", "awaiting", "sleep", "aborted"} =>
        SupEntry.restart_count = exits
\* the abort takes effect only where the task is suspended; it drops the
\* factory future in flight and marks and counts nothing
AbortAtSuspensionOnly ==
    (sup_pc # "aborted" /\ sup_pc' = "aborted") =>
        /\ sup_pc \in {"spawned", "awaiting", "sleep"}
        /\ inflight' = 0
        /\ UNCHANGED <<components, exits>>

\* C39: the supervisor can be cancelled only at a suspension point (the
\* factory future in flight, the backoff sleep), never between mark_error
\* and bump_restart: whenever the task is suspended or has been aborted,
\* restart_count equals the number of factory exits so far, and a factory
\* future in flight at the abort is dropped without mark_error or
\* bump_restart being applied.
C39_AbortOnlyAtSuspension ==
    []RestartsMatchExits /\ [][AbortAtSuspensionOnly]_vars
\* the supervisor was aborted while the factory ran for the third time:
\* two exits, two restarts counted, the component still ok
C39_Witness ==
    /\ sup_pc = "aborted"
    /\ exits = 2 /\ SupEntry.restart_count = 2
    /\ inflight = 0
    /\ SupEntry.status = "ok" /\ SupEntry.last_error = None

\* the backoffs handed to apply_jitter by the sleeps of call t so far
SleptBackoffs(t) ==
    {calls[t].slept[i].backoff_ms : i \in DOMAIN calls[t].slept}

\* C40: the backoff before jitter of every retry sleep of the reliable
\* caller is at most 10 000 ms, for every configured base_backoff_ms and
\* every number of retries.
C40_SleepBackoffCapped ==
    \A t \in Tasks : \A b \in SleptBackoffs(t) : b <= BACKOFF_CAP_MS

\* what does hold: a provider's first sleep uses base_backoff_ms as it is,
\* and every later one at most 10 000 ms
LaterSleepsCapped ==
    \A t \in Tasks, p \in Providers :
        /\ SleptFor(t, p) # <<>> => SleptFor(t, p)[1] = base_backoff_ms
        /\ \A i \in 2..Len(SleptFor(t, p)) : SleptFor(t, p)[i] <= BACKOFF_CAP_MS
\* a call sleeps on a backoff of 20 000 ms
UncappedFirstSleep ==
    \E t \in Tasks :
        /\ calls[t].pc = "sleep" /\ calls[t].attempt = 0
        /\ calls[t].backoff_ms = 20000
        /\ 20000 \in SleptBackoffs(t)

====
